---- MODULE Spec2Model ----
(***************************************************************************)
(* Habit tracker bot: the rate guard (ThrottlingMiddleware and             *)
(* AntiFloodMiddleware of middlewares/throttling.py, as registered by      *)
(* bot.py) and the habit store (DataManager of services/data_manager.py).  *)
(*                                                                         *)
(* Time is an integer number of ticks, TicksPerSecond ticks to the second. *)
(* All clock reads of one middleware call return the same instant: the     *)
(* call does not suspend between its reads of datetime.now().              *)
(***************************************************************************)
EXTENDS Integers, Sequences, FiniteSets, TLC

\* ------------------------------------------------------------------ bounds
TicksPerSecond == 2
\* fine-grained clock steps are taken only this many ticks into an hour
FineSpan == 3
\* number of whole-hour jumps of the clock in the assembled-bot runs
MaxHourJumps == 1
\* last instant of the flood-gate runs, in coarse steps
MaxFloodSteps == 4
\* last instant of the runs that drive both middleware classes, in coarse steps
MaxGuardSteps == 1
\* a flood threshold below the default, tried as constructor argument
SmallThreshold == 2
\* last calendar day of the store runs (days are 0..MaxDay)
MaxDay == 1
\* whole-second clock steps are taken only this many seconds into an hour
ChainSpan == 2
\* ticks the clock advances while the store is exercised
MaxStoreTicks == 1
\* days before today on which a check-in is drawn freely
RecentDays == 3
\* the day the streaks are computed on
StreakToday == 410
\* the day the statistics are computed on
StatsDay == 10
\* handler tasks under way at once
MaxTasks == 2

\* ------------------------------------------------------- program constants
THROTTLE_RATE_LIMIT == 1
CLEANUP_HOURS == 1
DEFAULT_FLOOD_THRESHOLD == 5
DEFAULT_FLOOD_WINDOW == 10
PENALTY_BASE == 30
PENALTY_FACTOR == 3
PENALTY_CAP == 900
MIN_NAME_LENGTH == 2
MAX_NAME_LENGTH == 50
STREAK_LOOKBACK_DAYS == 365
ACTIVE_DAYS == 7

\* ----------------------------------------------------------------- values
Users == {1, 2}
\* event.from_user is None
None == 0
Kinds == {"message", "callback_query"}
HabitIds == {"h1", "h2"}
\* habit names a user may type: a plain one, one that is a single letter between
\* blanks, and one of 51 letters
LongName == [i \in 1..51 |-> "a"]
Names == {<<"r", "u", "n">>, <<" ", "a", " ">>, LongName}
\* the values of frequency_map, and frequencies a caller may pass
FrequencyEnum == {"daily", "weekly", "3_times_week"}
Frequencies == {"daily", "weekly", "hourly"}
\* language codes a language callback may carry
Languages == {"ru", "en", "de"}
\* administrators issuing bans, and the reasons they give
Admins == {7, 8}
Reasons == {"spam", "abuse"}
Seconds(s) == s * TicksPerSecond
HourTicks == Seconds(CLEANUP_HOURS * 3600)
DayTicks == Seconds(24 * 3600)
\* coarse clock step of the flood-gate runs
FloodStep == Seconds(10)

Min(a, b) == IF a < b THEN a ELSE b
Range(s) == {s[i] : i \in DOMAIN s}
\* python dict operations: d[k] = v, del d[k]
Put(d, k, v) == [x \in (DOMAIN d) \cup {k} |-> IF x = k THEN v ELSE d[x]]
Del(d, k) == [x \in (DOMAIN d) \ {k} |-> d[x]]
EmptyDict == [x \in {} |-> 0]

VARIABLES
    now,                 \* datetime.now(), in ticks
    user_requests,       \* per ThrottlingMiddleware instance: dict user -> last accepted time
    flood_threshold,     \* AntiFloodMiddleware.flood_threshold
    flood_window,        \* AntiFloodMiddleware.flood_window, in ticks
    user_message_count,  \* AntiFloodMiddleware: dict user -> list of times
    penalties,           \* AntiFloodMiddleware: dict user -> penalty end
    decision,            \* outcome of the middleware call made in the last step
    accepted_at,         \* history: per instance, user -> time of the last admitted action
    flood_hist,          \* history of the flood gate, per user
    today,               \* date.today(), a day number
    data,                \* DataManager.data
    file,                \* the backing file: absent, truncated, or written with a document
    ret,                 \* the last store call of the current day and what it returned
    prev_ret,            \* the store call before it
    fsm,                 \* MemoryStorage: per user the wizard state and its data bag
    admin_data,          \* DataManager.data of the instance of routers/admin.py
    main_data,           \* DataManager.data of the instance bot.py main() creates
    tasks                \* handler tasks of the dispatcher that wait in an await

guardVars == <<now, user_requests, flood_threshold, flood_window, user_message_count,
               penalties, decision, accepted_at, flood_hist>>
storeVars == <<today, data, file, ret, prev_ret>>
appVars == <<fsm, admin_data, main_data, tasks>>
vars == <<now, user_requests, flood_threshold, flood_window, user_message_count,
          penalties, decision, accepted_at, flood_hist, today, data, file, ret, prev_ret,
          fsm, admin_data, main_data, tasks>>

\* ============================================================ pacing gate
rate_limit == Seconds(THROTTLE_RATE_LIMIT)

\* a slip in the comparison of _is_rate_limited: <= for <
is_rate_limited_inclusive(reqs, user_id, t) ==
    IF user_id \notin DOMAIN reqs THEN FALSE
    ELSE (t - reqs[user_id]) <= rate_limit

\* ThrottlingMiddleware._is_rate_limited
is_rate_limited(reqs, user_id, t) ==
    IF user_id \notin DOMAIN reqs THEN FALSE
    ELSE (t - reqs[user_id]) < rate_limit

\* ThrottlingMiddleware._send_throttling_message: the wait time it reports
wait_time(reqs, user_id, t) == rate_limit - (t - reqs[user_id])

\* a slip in the cutoff of _cleanup_old_entries: timedelta(minutes=1)
cleanup_minute_old_entries(reqs, t) ==
    LET cutoff_time == t - Seconds(60)
        users_to_remove == {u \in DOMAIN reqs : reqs[u] < cutoff_time}
    IN  [u \in (DOMAIN reqs) \ users_to_remove |-> reqs[u]]

\* ThrottlingMiddleware._cleanup_old_entries
cleanup_old_entries(reqs, t) ==
    LET cutoff_time == t - HourTicks
        users_to_remove == {u \in DOMAIN reqs : reqs[u] < cutoff_time}
    IN  [u \in (DOMAIN reqs) \ users_to_remove |-> reqs[u]]

\* a slip in __call__: the request time is recorded before the rate check's
\* early return
Throttling_call_restamp(reqs, user_id, t) ==
    IF user_id = None
    THEN [handler |-> TRUE, reqs |-> reqs, wait |-> 0]
    ELSE IF is_rate_limited(reqs, user_id, t)
    THEN [handler |-> FALSE, reqs |-> Put(reqs, user_id, t),
          wait |-> wait_time(reqs, user_id, t)]
    ELSE [handler |-> TRUE, reqs |-> cleanup_old_entries(Put(reqs, user_id, t), t), wait |-> 0]

\* a slip in __call__: no early return for an event without a user
Throttling_call_noskip(reqs, user_id, t) ==
    IF is_rate_limited(reqs, user_id, t)
    THEN [handler |-> FALSE, reqs |-> reqs, wait |-> wait_time(reqs, user_id, t)]
    ELSE [handler |-> TRUE, reqs |-> cleanup_old_entries(Put(reqs, user_id, t), t), wait |-> 0]

\* ThrottlingMiddleware.__call__ on one instance's map: whether the handler is
\* called, the map afterwards and the wait reported (0: nothing reported)
Throttling_call(reqs, user_id, t) ==
    IF user_id = None
    THEN [handler |-> TRUE, reqs |-> reqs, wait |-> 0]
    ELSE IF is_rate_limited(reqs, user_id, t)
    THEN [handler |-> FALSE, reqs |-> reqs, wait |-> wait_time(reqs, user_id, t)]
    ELSE [handler |-> TRUE, reqs |-> cleanup_old_entries(Put(reqs, user_id, t), t), wait |-> 0]

\* ============================================================= flood gate
\* AntiFloodMiddleware._is_penalized: the answer, and the penalties left
is_penalized(pen, user_id, t) ==
    IF user_id \notin DOMAIN pen THEN FALSE
    ELSE IF t >= pen[user_id] THEN FALSE
    ELSE TRUE

penalties_checked(pen, user_id, t) ==
    IF user_id \in DOMAIN pen /\ t >= pen[user_id] THEN Del(pen, user_id) ELSE pen

\* AntiFloodMiddleware._apply_penalty: the duration, in seconds
penalty_duration(pen, user_id) ==
    IF user_id \in DOMAIN pen
    THEN Min(PENALTY_BASE * PENALTY_FACTOR, PENALTY_CAP)
    ELSE PENALTY_BASE

\* AntiFloodMiddleware.__call__: the messages inside the window, then the new one
window_after(umc, user_id, t) ==
    LET old == IF user_id \in DOMAIN umc THEN umc[user_id] ELSE <<>>
        InWindow(msg_time) == (t - msg_time) <= flood_window
    IN  Append(SelectSeq(old, InWindow), t)

\* a slip in the threshold comparison of __call__: >= for >
AntiFlood_call_atleast(umc, pen, user_id, t) ==
    IF user_id = None
    THEN [handler |-> TRUE, umc |-> umc, pen |-> pen, penalty |-> 0]
    ELSE IF is_penalized(pen, user_id, t)
    THEN [handler |-> FALSE, umc |-> umc, pen |-> pen, penalty |-> 0]
    ELSE LET pen1 == penalties_checked(pen, user_id, t)
             w == window_after(umc, user_id, t)
             d == penalty_duration(pen1, user_id)
         IN  IF Len(w) >= flood_threshold
             THEN [handler |-> FALSE, umc |-> Put(umc, user_id, w),
                   pen |-> Put(pen1, user_id, t + Seconds(d)), penalty |-> d]
             ELSE [handler |-> TRUE, umc |-> Put(umc, user_id, w),
                   pen |-> pen1, penalty |-> 0]

\* a slip in __call__: an action of a penalized user restarts the penalty
AntiFlood_call_extending(umc, pen, user_id, t) ==
    IF user_id = None
    THEN [handler |-> TRUE, umc |-> umc, pen |-> pen, penalty |-> 0]
    ELSE IF is_penalized(pen, user_id, t)
    THEN [handler |-> FALSE, umc |-> umc,
          pen |-> Put(pen, user_id, t + Seconds(PENALTY_BASE)), penalty |-> 0]
    ELSE LET pen1 == penalties_checked(pen, user_id, t)
             w == window_after(umc, user_id, t)
             d == penalty_duration(pen1, user_id)
         IN  IF Len(w) > flood_threshold
             THEN [handler |-> FALSE, umc |-> Put(umc, user_id, w),
                   pen |-> Put(pen1, user_id, t + Seconds(d)), penalty |-> d]
             ELSE [handler |-> TRUE, umc |-> Put(umc, user_id, w),
                   pen |-> pen1, penalty |-> 0]

\* AntiFloodMiddleware.__call__: whether the handler is called, both maps
\* afterwards and the duration of the penalty applied (0: none)
AntiFlood_call(umc, pen, user_id, t) ==
    IF user_id = None
    THEN [handler |-> TRUE, umc |-> umc, pen |-> pen, penalty |-> 0]
    ELSE IF is_penalized(pen, user_id, t)
    THEN [handler |-> FALSE, umc |-> umc, pen |-> pen, penalty |-> 0]
    ELSE LET pen1 == penalties_checked(pen, user_id, t)
             w == window_after(umc, user_id, t)
             d == penalty_duration(pen1, user_id)
         IN  IF Len(w) > flood_threshold
             THEN [handler |-> FALSE, umc |-> Put(umc, user_id, w),
                   pen |-> Put(pen1, user_id, t + Seconds(d)), penalty |-> d]
             ELSE [handler |-> TRUE, umc |-> Put(umc, user_id, w),
                   pen |-> pen1, penalty |-> 0]

\* ============================================================ habit store
\* outcomes of DataManager._save_data: written; open() raised and the file
\* is as before; the write raised after open() had truncated the file
WriteOutcomes == {"ok", "open_error", "write_error"}

\* DataManager.__init__: the empty dataset
EmptyData ==
    [users |-> EmptyDict, habits |-> <<>>, checkins |-> EmptyDict,
     banned_users |-> EmptyDict,
     bot_stats |-> [total_commands |-> 0, start_date |-> 0]]

\* DataManager._save_data: the backing file afterwards
save_data(d, f, w) ==
    IF w = "ok" THEN [status |-> "written", doc |-> d]
    ELSE IF w = "open_error" THEN f
    ELSE [status |-> "truncated", doc |-> EmptyData]

\* a slip in the key of record_checkin: one key per user, habit and date
checkin_id_per_user(user_id, habit_id, day) == <<user_id, habit_id, day>>

\* DataManager.record_checkin: f"{habit_id}_{today}"
checkin_id(user_id, habit_id, day) == <<habit_id, day>>

\* DataManager.is_checked_in_today
is_checked_in_today(d, user_id, habit_id, day) ==
    LET id == checkin_id(user_id, habit_id, day)
    IN  id \in DOMAIN d.checkins /\ d.checkins[id].user_id = user_id

\* DataManager.get_total_checkins
get_total_checkins(d, user_id, habit_id) ==
    Cardinality({id \in DOMAIN d.checkins :
                    /\ d.checkins[id].user_id = user_id
                    /\ d.checkins[id].habit_id = habit_id})

\* a slip in record_checkin: no test for an existing check-in
record_checkin_unchecked(d, user_id, habit_id, day, w) ==
    LET id == checkin_id(user_id, habit_id, day)
        checkin_data == [id |-> id, user_id |-> user_id, habit_id |-> habit_id,
                         date |-> day, timestamp |-> day]
    IN  [value |-> (w = "ok"),
         data |-> [d EXCEPT !.checkins = Put(d.checkins, id, checkin_data)],
         saved |-> TRUE]

\* DataManager.record_checkin with write outcome w: the value returned, the
\* dataset afterwards and whether _save_data was called
record_checkin(d, user_id, habit_id, day, w) ==
    LET id == checkin_id(user_id, habit_id, day)
        checkin_data == [id |-> id, user_id |-> user_id, habit_id |-> habit_id,
                         date |-> day, timestamp |-> day]
    IN  IF id \in DOMAIN d.checkins
        THEN [value |-> FALSE, data |-> d, saved |-> FALSE]
        ELSE [value |-> (w = "ok"),
              data |-> [d EXCEPT !.checkins = Put(d.checkins, id, checkin_data)],
              saved |-> TRUE]

NoRet == [op |-> "none"]

RecordCheckin(user_id, habit_id, w) ==
    LET r == record_checkin(data, user_id, habit_id, today, w)
    IN  /\ data' = r.data
        /\ file' = IF r.saved THEN save_data(r.data, file, w) ELSE file
        /\ ret' = [op |-> "record_checkin", user_id |-> user_id, habit_id |-> habit_id,
                   value |-> r.value,
                   write |-> IF r.saved THEN w ELSE "none",
                   exists_before |-> checkin_id(user_id, habit_id, today) \in DOMAIN data.checkins,
                   checked_before |-> is_checked_in_today(data, user_id, habit_id, today),
                   total_before |-> get_total_checkins(data, user_id, habit_id)]
        /\ prev_ret' = ret
        /\ UNCHANGED today
        /\ UNCHANGED <<guardVars, appVars>>

\* midnight: date.today() moves on
NextDay ==
    /\ today + 1 <= MaxDay
    /\ today' = today + 1
    /\ ret' = NoRet
    /\ prev_ret' = NoRet
    /\ UNCHANGED <<data, file>>
    /\ UNCHANGED <<guardVars, appVars>>

\* ---------------------------------------------------------------- habits
\* str.strip() of a text given as a sequence of characters
RECURSIVE lstrip(_)
lstrip(text) == IF text # <<>> /\ Head(text) = " " THEN lstrip(Tail(text)) ELSE text
RECURSIVE rstrip(_)
rstrip(text) ==
    IF text # <<>> /\ text[Len(text)] = " "
    THEN rstrip(SubSeq(text, 1, Len(text) - 1)) ELSE text
strip(text) == rstrip(lstrip(text))

\* process_habit_name: the test a typed name has to pass
name_accepted(text) == ~(Len(strip(text)) < MIN_NAME_LENGTH \/ Len(strip(text)) > MAX_NAME_LENGTH)

\* process_habit_frequency: frequency_map.get(frequency_text) found a value
frequency_accepted(frequency) == frequency \in FrequencyEnum

\* the (name, frequency) pairs the creation dialogue hands to add_habit
WizardInputs ==
    {<<strip(text), frequency>> : text \in {n \in Names : name_accepted(n)},
                                  frequency \in {f \in Frequencies : frequency_accepted(f)}}

\* data["habits"] is a dict in insertion order: a sequence of habit records
\* with distinct ids
HabitKeys(d) == {d.habits[i].id : i \in DOMAIN d.habits}

\* the value dict.get returns for a missing key
NoHabit == [id |-> "none"]

\* self.data["habits"].get(habit_id)
habits_get(d, habit_id) ==
    IF habit_id \in HabitKeys(d)
    THEN d.habits[CHOOSE i \in DOMAIN d.habits : d.habits[i].id = habit_id]
    ELSE NoHabit

\* self.data["habits"][habit_id] = habit_data
habits_set(d, habit_id, habit_data) ==
    IF habit_id \in HabitKeys(d)
    THEN [i \in DOMAIN d.habits |->
             IF d.habits[i].id = habit_id THEN habit_data ELSE d.habits[i]]
    ELSE Append(d.habits, habit_data)

\* uuid.uuid4(): an id no habit has yet
uuid4(d) == HabitIds \ HabitKeys(d)

\* a slip in add_habit: the habit starts inactive
add_habit_inactive(d, user_id, name, frequency, habit_id, t, w) ==
    LET habit_data == [id |-> habit_id, user_id |-> user_id, name |-> name,
                       frequency |-> frequency, created_at |-> t, active |-> FALSE]
    IN  [value |-> (w = "ok"),
         data |-> [d EXCEPT !.habits = habits_set(d, habit_id, habit_data)],
         saved |-> TRUE]

\* DataManager.add_habit with the id uuid4 returned, at time t, with write
\* outcome w
add_habit(d, user_id, name, frequency, habit_id, t, w) ==
    LET habit_data == [id |-> habit_id, user_id |-> user_id, name |-> name,
                       frequency |-> frequency, created_at |-> t, active |-> TRUE]
    IN  [value |-> (w = "ok"),
         data |-> [d EXCEPT !.habits = habits_set(d, habit_id, habit_data)],
         saved |-> TRUE]

\* list.sort(key=created_at): a stable insertion sort
RECURSIVE insert_sorted(_, _)
insert_sorted(sorted, h) ==
    IF sorted = <<>> THEN <<h>>
    ELSE IF sorted[Len(sorted)].created_at <= h.created_at THEN Append(sorted, h)
    ELSE Append(insert_sorted(SubSeq(sorted, 1, Len(sorted) - 1), h), sorted[Len(sorted)])

RECURSIVE sort_by_created_at(_)
sort_by_created_at(hs) ==
    IF hs = <<>> THEN <<>>
    ELSE insert_sorted(sort_by_created_at(SubSeq(hs, 1, Len(hs) - 1)), hs[Len(hs)])

\* a slip in get_user_habits: no test of the active flag
get_user_habits_all(d, user_id) ==
    sort_by_created_at(SelectSeq(d.habits, LAMBDA h : h.user_id = user_id))

\* DataManager.get_user_habits
get_user_habits(d, user_id) ==
    sort_by_created_at(SelectSeq(d.habits, LAMBDA h : h.user_id = user_id /\ h.active))

\* a slip in get_habit: no test of the owner
get_habit_any(d, user_id, habit_id) == habits_get(d, habit_id)

\* DataManager.get_habit
get_habit(d, user_id, habit_id) ==
    LET habit == habits_get(d, habit_id)
    IN  IF habit # NoHabit /\ habit.user_id = user_id THEN habit ELSE NoHabit

\* a slip in delete_habit: the record is removed
delete_habit_hard(d, user_id, habit_id, t, w) ==
    LET habit == get_habit(d, user_id, habit_id)
    IN  IF habit # NoHabit
        THEN [value |-> (w = "ok"),
              data |-> [d EXCEPT !.habits = SelectSeq(@, LAMBDA h : h.id # habit_id)],
              saved |-> TRUE]
        ELSE [value |-> FALSE, data |-> d, saved |-> FALSE]

\* DataManager.delete_habit at time t with write outcome w
delete_habit(d, user_id, habit_id, t, w) ==
    LET habit == get_habit(d, user_id, habit_id)
    IN  IF habit # NoHabit
        THEN [value |-> (w = "ok"),
              data |-> [d EXCEPT !.habits =
                           habits_set(d, habit_id,
                                      Put(Put(habit, "active", FALSE), "deleted_at", t))],
              saved |-> TRUE]
        ELSE [value |-> FALSE, data |-> d, saved |-> FALSE]

AddHabit(user_id, name, frequency, w) ==
    \E habit_id \in uuid4(data) :
        LET r == add_habit(data, user_id, name, frequency, habit_id, now, w)
        IN  /\ data' = r.data
            /\ file' = IF r.saved THEN save_data(r.data, file, w) ELSE file
            /\ ret' = [op |-> "add_habit", user_id |-> user_id, habit_id |-> habit_id,
                       value |-> r.value]
            /\ UNCHANGED <<today, prev_ret>>
            /\ UNCHANGED <<guardVars, appVars>>

DeleteHabit(user_id, habit_id, w) ==
    LET r == delete_habit(data, user_id, habit_id, now, w)
    IN  /\ data' = r.data
        /\ file' = IF r.saved THEN save_data(r.data, file, w) ELSE file
        /\ ret' = [op |-> "delete_habit", user_id |-> user_id, habit_id |-> habit_id,
                   value |-> r.value]
        /\ UNCHANGED <<today, prev_ret>>
        /\ UNCHANGED <<guardVars, appVars>>

\* ------------------------------------------------------------------ bans
\* DataManager.ban_user at time t with write outcome w
ban_user(d, user_id, reason, banned_by, t, w) ==
    [value |-> (w = "ok"),
     data |-> [d EXCEPT !.banned_users =
                  Put(@, user_id, [user_id |-> user_id, reason |-> reason,
                                   banned_by |-> banned_by, banned_at |-> t])],
     saved |-> TRUE]

\* a slip in unban_user: the record is kept
unban_user_keep(d, user_id, unbanned_by, w) ==
    IF user_id \in DOMAIN d.banned_users
    THEN [value |-> (w = "ok"), data |-> d, saved |-> TRUE]
    ELSE [value |-> FALSE, data |-> d, saved |-> FALSE]

\* DataManager.unban_user with write outcome w
unban_user(d, user_id, unbanned_by, w) ==
    IF user_id \in DOMAIN d.banned_users
    THEN [value |-> (w = "ok"),
          data |-> [d EXCEPT !.banned_users = Del(@, user_id)],
          saved |-> TRUE]
    ELSE [value |-> FALSE, data |-> d, saved |-> FALSE]

\* DataManager.is_user_banned
is_user_banned(d, user_id) == user_id \in DOMAIN d.banned_users

\* the value dict.get returns for a missing key
NoRecord == [user_id |-> None]

\* DataManager.get_ban_status
get_ban_status(d, user_id) ==
    LET ban_info == IF user_id \in DOMAIN d.banned_users
                    THEN d.banned_users[user_id] ELSE NoRecord
    IN  <<ban_info # NoRecord, ban_info>>

BanUser(user_id, reason, banned_by, w) ==
    LET r == ban_user(data, user_id, reason, banned_by, now, w)
    IN  /\ data' = r.data
        /\ file' = IF r.saved THEN save_data(r.data, file, w) ELSE file
        /\ ret' = [op |-> "ban_user", user_id |-> user_id, value |-> r.value,
                   banned_before |-> is_user_banned(data, user_id)]
        /\ UNCHANGED <<today, prev_ret>>
        /\ UNCHANGED <<guardVars, appVars>>

UnbanUser(user_id, unbanned_by, w) ==
    LET r == unban_user(data, user_id, unbanned_by, w)
    IN  /\ data' = r.data
        /\ file' = IF r.saved THEN save_data(r.data, file, w) ELSE file
        /\ ret' = [op |-> "unban_user", user_id |-> user_id, value |-> r.value,
                   banned_before |-> is_user_banned(data, user_id)]
        /\ UNCHANGED <<today, prev_ret>>
        /\ UNCHANGED <<guardVars, appVars>>

\* datetime.now() moves on between two store calls
TickStore ==
    /\ now + 1 <= MaxStoreTicks
    /\ now' = now + 1
    /\ UNCHANGED <<user_requests, flood_threshold, flood_window, user_message_count,
                   penalties, decision, accepted_at, flood_hist>>
    /\ UNCHANGED <<storeVars, appVars>>

\* ---------------------------------------------------------------- streaks
\* the test in the i-th round of the loop of get_current_streak
streak_day_hit(d, user_id, habit_id, current_date, i) ==
    LET id == checkin_id(user_id, habit_id, current_date - i)
    IN  id \in DOMAIN d.checkins /\ d.checkins[id].user_id = user_id

\* a slip in get_current_streak: a day without a check-in is skipped, not the
\* end of the walk
get_current_streak_skipping(d, user_id, habit_id, current_date) ==
    Cardinality({i \in 0..(STREAK_LOOKBACK_DAYS - 1) :
                    streak_day_hit(d, user_id, habit_id, current_date, i)})

\* DataManager.get_current_streak on calendar day current_date: the loop
\* over range(365) counts the rounds before the first one that breaks
get_current_streak(d, user_id, habit_id, current_date) ==
    LET breaks == {i \in 0..(STREAK_LOOKBACK_DAYS - 1) :
                      ~streak_day_hit(d, user_id, habit_id, current_date, i)}
    IN  IF breaks = {} THEN STREAK_LOOKBACK_DAYS
        ELSE CHOOSE i \in breaks : \A j \in breaks : i <= j

GetCurrentStreak(user_id, habit_id) ==
    /\ ret' = [op |-> "get_current_streak", user_id |-> user_id, habit_id |-> habit_id,
               value |-> get_current_streak(data, user_id, habit_id, today)]
    /\ UNCHANGED <<today, data, file, prev_ret>>
    /\ UNCHANGED <<guardVars, appVars>>

\* ------------------------------------------------------------ statistics
\* frequency_count[freq] over the active habits
frequency_count(d, freq) ==
    Cardinality({i \in DOMAIN d.habits : d.habits[i].active /\ d.habits[i].frequency = freq})

\* a slip in the frequency analysis: min for max
least_popular_frequency(d) ==
    LET active == SelectSeq(d.habits, LAMBDA h : h.active)
    IN  IF active = <<>> THEN "daily"
        ELSE active[CHOOSE i \in DOMAIN active :
                       /\ \A j \in DOMAIN active :
                              frequency_count(d, active[j].frequency)
                                  >= frequency_count(d, active[i].frequency)
                       /\ \A j \in 1..(i - 1) :
                              frequency_count(d, active[j].frequency)
                                  > frequency_count(d, active[i].frequency)].frequency

\* max(frequency_count, key=frequency_count.get), or "daily" when there is no
\* active habit: the first key, in the order the habits come, with the
\* largest count
most_popular_frequency(d) ==
    LET active == SelectSeq(d.habits, LAMBDA h : h.active)
    IN  IF active = <<>> THEN "daily"
        ELSE active[CHOOSE i \in DOMAIN active :
                       /\ \A j \in DOMAIN active :
                              frequency_count(d, active[j].frequency)
                                  <= frequency_count(d, active[i].frequency)
                       /\ \A j \in 1..(i - 1) :
                              frequency_count(d, active[j].frequency)
                                  < frequency_count(d, active[i].frequency)].frequency

\* DataManager.get_bot_statistics at time t on calendar day `day`
get_bot_statistics(d, t, day) ==
    LET week_ago == t - ACTIVE_DAYS * DayTicks
        today_start == t - (t % DayTicks)
        total_users == Cardinality(DOMAIN d.users)
        active_habits == Cardinality({i \in DOMAIN d.habits : d.habits[i].active})
    IN  [total_users |-> total_users,
         active_users_7d |->
             Cardinality({u \in DOMAIN d.users : d.users[u].last_active >= week_ago}),
         new_users_today |->
             Cardinality({u \in DOMAIN d.users : d.users[u].created_at >= today_start}),
         russian_users |-> Cardinality({u \in DOMAIN d.users : d.users[u].language = "ru"}),
         english_users |-> Cardinality({u \in DOMAIN d.users : d.users[u].language # "ru"}),
         total_habits |-> Len(d.habits),
         active_habits |-> active_habits,
         most_popular_frequency |-> most_popular_frequency(d),
         total_checkins |-> Cardinality(DOMAIN d.checkins),
         checkins_today |->
             Cardinality({id \in DOMAIN d.checkins : d.checkins[id].date = day}),
         avg_habits_per_user |->
             <<active_habits, IF total_users > 1 THEN total_users ELSE 1>>,
         banned_users |-> Cardinality(DOMAIN d.banned_users),
         total_commands |-> d.bot_stats.total_commands]

GetBotStatistics ==
    /\ ret' = [op |-> "get_bot_statistics", value |-> get_bot_statistics(data, now, today)]
    /\ UNCHANGED <<today, data, file, prev_ret>>
    /\ UNCHANGED <<guardVars, appVars>>

\* ----------------------------------------------------------------- users
\* a slip in set_user_language: the record is created anew each time
set_user_language_anew(d, user_id, language, t, w) ==
    [value |-> IF w = "ok" THEN "returned" ELSE "raised",
     data |-> [d EXCEPT !.users =
                  Put(@, user_id, [user_id |-> user_id, created_at |-> t,
                                   last_active |-> t, language |-> language])],
     saved |-> TRUE]

\* DataManager.set_user_language at time t with write outcome w; the
\* exception of _save_data is not caught
set_user_language(d, user_id, language, t, w) ==
    LET created == IF user_id \notin DOMAIN d.users
                   THEN Put(d.users, user_id,
                            [user_id |-> user_id, created_at |-> t, last_active |-> t])
                   ELSE d.users
        user == Put(Put(created[user_id], "language", language), "last_active", t)
    IN  [value |-> IF w = "ok" THEN "returned" ELSE "raised",
         data |-> [d EXCEPT !.users = Put(created, user_id, user)],
         saved |-> TRUE]

\* DataManager.update_user_activity at time t with write outcome w
update_user_activity(d, user_id, t, w) ==
    IF user_id \in DOMAIN d.users
    THEN [value |-> IF w = "ok" THEN "returned" ELSE "raised",
          data |-> [d EXCEPT !.users[user_id] = Put(@, "last_active", t)],
          saved |-> TRUE]
    ELSE [value |-> "returned", data |-> d, saved |-> FALSE]

SetUserLanguage(user_id, language, w) ==
    LET r == set_user_language(data, user_id, language, now, w)
    IN  /\ data' = r.data
        /\ file' = IF r.saved THEN save_data(r.data, file, w) ELSE file
        /\ ret' = [op |-> "set_user_language", user_id |-> user_id, value |-> r.value,
                   known_before |-> user_id \in DOMAIN data.users]
        /\ UNCHANGED <<today, prev_ret>>
        /\ UNCHANGED <<guardVars, appVars>>

UpdateUserActivity(user_id, w) ==
    LET r == update_user_activity(data, user_id, now, w)
    IN  /\ data' = r.data
        /\ file' = IF r.saved THEN save_data(r.data, file, w) ELSE file
        /\ ret' = [op |-> "update_user_activity", user_id |-> user_id, value |-> r.value,
                   known_before |-> user_id \in DOMAIN data.users]
        /\ UNCHANGED <<today, prev_ret>>
        /\ UNCHANGED <<guardVars, appVars>>

\* ------------------------------------------------------------- broadcast
\* a slip in get_all_active_users: banned users are not skipped
get_all_active_users_unfiltered(d, t) ==
    LET week_ago == t - ACTIVE_DAYS * DayTicks
    IN  {d.users[u] : u \in {x \in DOMAIN d.users : d.users[x].last_active >= week_ago}}

\* DataManager.get_all_active_users at time t: the records appended to
\* active_users (their order is the order of the users dict)
get_all_active_users(d, t) ==
    LET week_ago == t - ACTIVE_DAYS * DayTicks
    IN  {d.users[u] : u \in {x \in DOMAIN d.users :
                                /\ ~is_user_banned(d, d.users[x].user_id)
                                /\ d.users[x].last_active >= week_ago}}

GetAllActiveUsers ==
    /\ ret' = [op |-> "get_all_active_users", value |-> get_all_active_users(data, now)]
    /\ UNCHANGED <<today, data, file, prev_ret>>
    /\ UNCHANGED <<guardVars, appVars>>

\* ===================================================== the assembled bot
\* bot.py main(): the middleware registered on each observer, one fresh
\* instance each
Registered ==
    [message |-> <<"ThrottlingMiddleware">>,
     callback_query |-> <<"ThrottlingMiddleware">>]

NoDecision ==
    [via |-> "none", uid |-> None, handler |-> FALSE, gates |-> {}, reason |-> "none",
     wait |-> 0, penalty |-> 0, elapsed |-> -1, serving |-> FALSE, prior |-> 0,
     since |-> 0, nth |-> 0]

NoHist == [admitted |-> <<>>, until |-> 0, count |-> 0, since |-> 0]

\* history of the flood gate after a call for user_id with result r
HistAfter(h, r, t) ==
    LET Recent(e) == (t - e) <= flood_window
        recent == SelectSeq(h.admitted, Recent)
    IN  IF r.penalty > 0
        THEN [admitted |-> recent, until |-> t + Seconds(r.penalty),
              count |-> h.count + 1, since |-> 0]
        ELSE IF r.handler
        THEN [h EXCEPT !.admitted = Append(recent, t),
                       !.since = Min(h.since + 1, flood_threshold)]
        ELSE h

HistPrior(h, t) == Cardinality({i \in DOMAIN h.admitted : (t - h.admitted[i]) <= flood_window})

\* one update of the given kind travels through a chain of middleware classes
\* (ThrottlingMiddleware before AntiFloodMiddleware) to the handler
DispatchVia(chain, kind, uid) ==
    LET thr == IF "ThrottlingMiddleware" \in chain
               THEN Throttling_call(user_requests[kind], uid, now)
               ELSE [handler |-> TRUE, reqs |-> user_requests[kind], wait |-> 0]
        fl == IF thr.handler /\ "AntiFloodMiddleware" \in chain
              THEN AntiFlood_call(user_message_count, penalties, uid, now)
              ELSE [handler |-> thr.handler, umc |-> user_message_count,
                    pen |-> penalties, penalty |-> 0]
        floodRan == thr.handler /\ "AntiFloodMiddleware" \in chain
        h == IF uid = None THEN NoHist ELSE flood_hist[uid]
    IN  /\ user_requests' = [user_requests EXCEPT ![kind] = thr.reqs]
        /\ user_message_count' = fl.umc
        /\ penalties' = fl.pen
        /\ accepted_at' = IF uid # None /\ thr.handler /\ "ThrottlingMiddleware" \in chain
                          THEN [accepted_at EXCEPT ![kind] = Put(accepted_at[kind], uid, now)]
                          ELSE accepted_at
        /\ flood_hist' = IF uid # None /\ floodRan
                         THEN [flood_hist EXCEPT ![uid] = HistAfter(h, fl, now)]
                         ELSE flood_hist
        /\ decision' =
             [via |-> kind, uid |-> uid, handler |-> fl.handler,
              gates |-> (IF "ThrottlingMiddleware" \in chain THEN {"pacing"} ELSE {})
                        \cup (IF floodRan THEN {"flood"} ELSE {}),
              reason |-> IF ~thr.handler THEN "pacing"
                         ELSE IF ~fl.handler THEN "flood" ELSE "none",
              wait |-> thr.wait, penalty |-> fl.penalty,
              elapsed |-> IF uid \in DOMAIN accepted_at[kind]
                          THEN now - accepted_at[kind][uid] ELSE -1,
              serving |-> floodRan /\ h.count > 0 /\ now < h.until,
              prior |-> IF floodRan THEN HistPrior(h, now) ELSE 0,
              since |-> h.since,
              nth |-> IF fl.penalty > 0 THEN h.count + 1 ELSE h.count]
        /\ UNCHANGED <<now, flood_threshold, flood_window>>
        /\ UNCHANGED <<storeVars, appVars>>

\* one update of the given kind travels through the observer's middleware, as
\* bot.py registers it, to the handler
Dispatch(kind, uid) == DispatchVia(Range(Registered[kind]), kind, uid)

\* AntiFloodMiddleware.__call__ driven directly, as the middleware of a chain
\* would be
FloodCall(uid) ==
    LET fl == AntiFlood_call(user_message_count, penalties, uid, now)
        h == IF uid = None THEN NoHist ELSE flood_hist[uid]
    IN  /\ user_message_count' = fl.umc
        /\ penalties' = fl.pen
        /\ flood_hist' = IF uid # None
                         THEN [flood_hist EXCEPT ![uid] = HistAfter(h, fl, now)]
                         ELSE flood_hist
        /\ decision' =
             [via |-> "antiflood", uid |-> uid, handler |-> fl.handler,
              gates |-> {"flood"},
              reason |-> IF fl.handler THEN "none" ELSE "flood",
              wait |-> 0, penalty |-> fl.penalty, elapsed |-> -1,
              serving |-> h.count > 0 /\ now < h.until,
              prior |-> HistPrior(h, now),
              since |-> h.since,
              nth |-> IF fl.penalty > 0 THEN h.count + 1 ELSE h.count]
        /\ UNCHANGED <<now, user_requests, accepted_at, flood_threshold, flood_window>>
        /\ UNCHANGED <<storeVars, appVars>>

\* the clock advances by one tick
TickFine ==
    /\ (now % HourTicks) + 1 <= FineSpan
    /\ now' = now + 1
    /\ decision' = NoDecision
    /\ UNCHANGED <<user_requests, flood_threshold, flood_window, user_message_count,
                   penalties, accepted_at, flood_hist>>
    /\ UNCHANGED <<storeVars, appVars>>

\* the clock advances by one hour
TickHour ==
    /\ now + HourTicks <= MaxHourJumps * HourTicks + FineSpan
    /\ now' = now + HourTicks
    /\ decision' = NoDecision
    /\ UNCHANGED <<user_requests, flood_threshold, flood_window, user_message_count,
                   penalties, accepted_at, flood_hist>>
    /\ UNCHANGED <<storeVars, appVars>>

\* the clock advances by one coarse step
TickFlood ==
    /\ now + FloodStep <= MaxFloodSteps * FloodStep
    /\ now' = now + FloodStep
    /\ decision' = NoDecision
    /\ UNCHANGED <<user_requests, flood_threshold, flood_window, user_message_count,
                   penalties, accepted_at, flood_hist>>
    /\ UNCHANGED <<storeVars, appVars>>

\* AntiFloodMiddleware.__init__ arguments tried: the defaults, and a window as
\* long as the first penalty
FloodConfigs ==
    {<<DEFAULT_FLOOD_THRESHOLD, Seconds(DEFAULT_FLOOD_WINDOW)>>,
     <<SmallThreshold, Seconds(PENALTY_BASE)>>}

InitGuard ==
    /\ now = 0
    /\ user_requests = [k \in Kinds |-> EmptyDict]
    /\ user_message_count = EmptyDict
    /\ penalties = EmptyDict
    /\ decision = NoDecision
    /\ accepted_at = [k \in Kinds |-> EmptyDict]
    /\ flood_hist = [u \in Users |-> NoHist]

\* the handler tasks the dispatcher may have under way at once, and a slot
\* without a task
TaskIds == 1..MaxTasks
NoTask == [at |-> "idle"]

\* aiogram FSMContext of a user nobody has set: no state, empty data
NoSession == [state |-> "none", data |-> EmptyDict]

\* bot start with no backing file: an empty MemoryStorage and three fresh
\* DataManager instances, of which main() initializes its own
InitApp ==
    /\ fsm = [u \in Users |-> NoSession]
    /\ admin_data = EmptyData
    /\ main_data = EmptyData
    /\ tasks = [k \in TaskIds |-> NoTask]

InitStore ==
    /\ InitApp
    /\ today = 0
    /\ data = EmptyData
    /\ file = [status |-> "absent", doc |-> EmptyData]
    /\ ret = NoRet
    /\ prev_ret = NoRet

Init ==
    /\ InitGuard
    /\ InitStore
    /\ flood_threshold = DEFAULT_FLOOD_THRESHOLD
    /\ flood_window = Seconds(DEFAULT_FLOOD_WINDOW)

InitFlood ==
    /\ InitGuard
    /\ InitStore
    /\ \E c \in FloodConfigs : flood_threshold = c[1] /\ flood_window = c[2]

NextBot ==
    \/ \E kind \in Kinds, uid \in Users \cup {None} : Dispatch(kind, uid)
    \/ TickFine
    \/ TickHour

NextFlood ==
    \/ \E uid \in Users \cup {None} : FloodCall(uid)
    \/ TickFlood

NextStore ==
    \/ \E user_id \in Users, habit_id \in HabitIds, w \in WriteOutcomes :
          RecordCheckin(user_id, habit_id, w)
    \/ NextDay

SpecBot == Init /\ [][NextBot]_vars
SpecStore == Init /\ [][NextStore]_vars

NextBans ==
    \/ \E user_id \in Users, reason \in Reasons, banned_by \in Admins, w \in WriteOutcomes :
          BanUser(user_id, reason, banned_by, w)
    \/ \E user_id \in Users, unbanned_by \in Admins, w \in WriteOutcomes :
          UnbanUser(user_id, unbanned_by, w)
    \/ TickStore
SpecBans == Init /\ [][NextBans]_vars

NextHabits ==
    \/ \E user_id \in Users, input \in WizardInputs, w \in WriteOutcomes :
          AddHabit(user_id, input[1], input[2], w)
    \/ \E user_id \in Users, habit_id \in HabitIds, w \in WriteOutcomes :
          DeleteHabit(user_id, habit_id, w)
    \/ TickStore
SpecHabits == Init /\ [][NextHabits]_vars

\* the check-ins a day can hold: per habit none, or one by either user
CheckinsOfDay == [HabitIds -> Users \cup {None}]

\* a store in which some habits were checked in today and the file is written
InitRetire ==
    /\ InitGuard
    /\ today = 0
    /\ \E cs \in CheckinsOfDay :
          data = [EmptyData EXCEPT !.checkins =
                     [id \in {checkin_id(cs[h], h, 0) : h \in {x \in HabitIds : cs[x] # None}} |->
                         [id |-> id, user_id |-> cs[id[1]], habit_id |-> id[1],
                          date |-> 0, timestamp |-> 0]]]
    /\ file = [status |-> "written", doc |-> data]
    /\ ret = NoRet
    /\ prev_ret = NoRet
    /\ InitApp
    /\ flood_threshold = DEFAULT_FLOOD_THRESHOLD
    /\ flood_window = Seconds(DEFAULT_FLOOD_WINDOW)

\* habits created with the file written, and deleted with any write outcome
NextRetire ==
    \/ \E user_id \in Users, input \in WizardInputs :
          AddHabit(user_id, input[1], input[2], "ok")
    \/ \E user_id \in Users, habit_id \in HabitIds, w \in WriteOutcomes :
          DeleteHabit(user_id, habit_id, w)
    \/ TickStore
SpecRetire == InitRetire /\ [][NextRetire]_vars

\* lengths of an unbroken run of daily check-ins
RunLengths == {0, 1, STREAK_LOOKBACK_DAYS - 1, STREAK_LOOKBACK_DAYS, STREAK_LOOKBACK_DAYS + 1, 400}

\* the check-in record record_checkin stores for habit_id on `day`
checkin_record(user_id, habit_id, day) ==
    [id |-> checkin_id(user_id, habit_id, day), user_id |-> user_id,
     habit_id |-> habit_id, date |-> day, timestamp |-> day]

\* a store with a history of check-ins of habit h1: an unbroken run by one user
\* and, on the most recent days, check-ins by either user or none
InitStreak ==
    /\ InitGuard
    /\ today = StreakToday
    /\ \E run \in RunLengths, runner \in Users,
          recent \in [0..(RecentDays - 1) -> Users \cup {None}] :
          LET by == [day \in (today - RecentDays - run + 1)..today |->
                        IF day > today - RecentDays THEN recent[today - day] ELSE runner]
              days == {day \in DOMAIN by : by[day] # None}
          IN  data = [EmptyData EXCEPT !.checkins =
                         [id \in {checkin_id(by[day], "h1", day) : day \in days} |->
                             checkin_record(by[id[2]], "h1", id[2])]]
    /\ file = [status |-> "written", doc |-> data]
    /\ ret = NoRet
    /\ prev_ret = NoRet
    /\ InitApp
    /\ flood_threshold = DEFAULT_FLOOD_THRESHOLD
    /\ flood_window = Seconds(DEFAULT_FLOOD_WINDOW)

NextStreak ==
    \E user_id \in Users, habit_id \in HabitIds : GetCurrentStreak(user_id, habit_id)
SpecStreak == InitStreak /\ [][NextStreak]_vars

\* the clock at which the statistics are computed
StatsNow == StatsDay * DayTicks + HourTicks

\* (created_at, last_active) of a user: last active just before, or exactly,
\* seven days ago; created just before midnight, or at midnight
UserTimes ==
    {<<StatsNow - ACTIVE_DAYS * DayTicks - 1, StatsNow - ACTIVE_DAYS * DayTicks - 1>>,
     <<StatsNow - ACTIVE_DAYS * DayTicks - 1, StatsNow - ACTIVE_DAYS * DayTicks>>,
     <<StatsDay * DayTicks - 1, StatsNow>>,
     <<StatsDay * DayTicks, StatsNow>>}

\* the user records set_user_language leaves behind
UserRecords(user_id) ==
    {[user_id |-> user_id, created_at |-> times[1], last_active |-> times[2],
      language |-> language] : times \in UserTimes, language \in Languages}

\* ids uuid4 gave to the habits of the dataset, in the order of creation
StatsHabitIds == <<"h1", "h2", "h3">>

\* the habit records add_habit and delete_habit leave behind
StatsHabit(k, frequency, active) ==
    LET habit == [id |-> StatsHabitIds[k], user_id |-> 1, name |-> <<"r", "u", "n">>,
                  frequency |-> frequency, created_at |-> 0, active |-> active]
    IN  IF active THEN habit ELSE Put(habit, "deleted_at", StatsNow)

HabitLists ==
    UNION {[1..n -> {f \in Frequencies : frequency_accepted(f)} \X BOOLEAN] :
              n \in 0..Len(StatsHabitIds)}

\* check-ins of user 1: none, one today, one today and one yesterday
CheckinSets ==
    {{}, {<<"h1", StatsDay>>}, {<<"h1", StatsDay>>, <<"h1", StatsDay - 1>>},
     {<<"h2", StatsDay - 1>>}}

\* a store as users, habits, check-ins and bans have left it
InitStats ==
    /\ now = StatsNow
    /\ user_requests = [k \in Kinds |-> EmptyDict]
    /\ user_message_count = EmptyDict
    /\ penalties = EmptyDict
    /\ decision = NoDecision
    /\ accepted_at = [k \in Kinds |-> EmptyDict]
    /\ flood_hist = [u \in Users |-> NoHist]
    /\ flood_threshold = DEFAULT_FLOOD_THRESHOLD
    /\ flood_window = Seconds(DEFAULT_FLOOD_WINDOW)
    /\ today = StatsDay
    /\ \E known \in SUBSET Users, hl \in HabitLists, cs \in CheckinSets,
          banned \in {{}, {2}} :
          \E us \in [known -> UNION {UserRecords(u) : u \in Users}] :
              /\ \A u \in known : us[u].user_id = u
              /\ data = [users |-> us,
                         habits |-> [k \in DOMAIN hl |-> StatsHabit(k, hl[k][1], hl[k][2])],
                         checkins |-> [id \in cs |-> checkin_record(1, id[1], id[2])],
                         banned_users |->
                             [u \in banned |-> [user_id |-> u, reason |-> "spam",
                                                banned_by |-> 7, banned_at |-> 0]],
                         bot_stats |-> EmptyData.bot_stats]
    /\ file = [status |-> "written", doc |-> data]
    /\ ret = NoRet
    /\ prev_ret = NoRet
    /\ InitApp

NextStats == GetBotStatistics
SpecStats == InitStats /\ [][NextStats]_vars

NextUsers ==
    \/ \E user_id \in Users, language \in Languages, w \in WriteOutcomes :
          SetUserLanguage(user_id, language, w)
    \/ \E user_id \in Users, w \in WriteOutcomes : UpdateUserActivity(user_id, w)
    \/ TickStore
SpecUsers == Init /\ [][NextUsers]_vars

\* a store as language choices and bans have left it
InitBroadcast ==
    /\ now = StatsNow
    /\ user_requests = [k \in Kinds |-> EmptyDict]
    /\ user_message_count = EmptyDict
    /\ penalties = EmptyDict
    /\ decision = NoDecision
    /\ accepted_at = [k \in Kinds |-> EmptyDict]
    /\ flood_hist = [u \in Users |-> NoHist]
    /\ flood_threshold = DEFAULT_FLOOD_THRESHOLD
    /\ flood_window = Seconds(DEFAULT_FLOOD_WINDOW)
    /\ today = StatsDay
    /\ \E known \in SUBSET Users, banned \in SUBSET Users :
          \E us \in [known -> UNION {UserRecords(u) : u \in Users}] :
              /\ \A u \in known : us[u].user_id = u
              /\ data = [EmptyData EXCEPT
                            !.users = us,
                            !.banned_users =
                                [u \in banned |-> [user_id |-> u, reason |-> "spam",
                                                   banned_by |-> 7, banned_at |-> 0]]]
    /\ file = [status |-> "written", doc |-> data]
    /\ ret = NoRet
    /\ prev_ret = NoRet
    /\ InitApp

NextBroadcast == GetAllActiveUsers
SpecBroadcast == InitBroadcast /\ [][NextBroadcast]_vars

\* add_habit called with whatever name and frequency the caller passes
NextCreate ==
    \/ \E user_id \in Users, name \in Names, frequency \in Frequencies, w \in WriteOutcomes :
          AddHabit(user_id, name, frequency, w)
    \/ TickStore
SpecCreate == Init /\ [][NextCreate]_vars
SpecFlood == InitFlood /\ [][NextFlood]_vars

\* one instance of each middleware class driven directly, over coarse clock steps
TickGuard ==
    /\ now + FloodStep <= MaxGuardSteps * FloodStep
    /\ now' = now + FloodStep
    /\ decision' = NoDecision
    /\ UNCHANGED <<user_requests, flood_threshold, flood_window, user_message_count,
                   penalties, accepted_at, flood_hist>>
    /\ UNCHANGED <<storeVars, appVars>>

NextGuard ==
    \/ \E uid \in Users \cup {None} : Dispatch("message", uid)
    \/ \E uid \in Users \cup {None} : FloodCall(uid)
    \/ TickGuard

InitSmall ==
    /\ InitGuard
    /\ InitStore
    /\ flood_threshold = SmallThreshold
    /\ flood_window = Seconds(DEFAULT_FLOOD_WINDOW)

SpecGuard == InitSmall /\ [][NextGuard]_vars

\* both middleware classes on one observer, the pacing gate before the flood
\* gate, over whole-second clock steps and hour jumps
BothGates == {"ThrottlingMiddleware", "AntiFloodMiddleware"}

TickSecond ==
    /\ (now % HourTicks) + Seconds(1) <= Seconds(ChainSpan)
    /\ now' = now + Seconds(1)
    /\ decision' = NoDecision
    /\ UNCHANGED <<user_requests, flood_threshold, flood_window, user_message_count,
                   penalties, accepted_at, flood_hist>>
    /\ UNCHANGED <<storeVars, appVars>>

NextChain ==
    \/ \E uid \in Users \cup {None} : DispatchVia(BothGates, "message", uid)
    \/ TickSecond
    \/ TickHour

SpecChain == InitSmall /\ [][NextChain]_vars

\* ======================================= the DataManager instances at work
\* DataManager.__init__ at time t
FreshData(t) == [EmptyData EXCEPT !.bot_stats.start_date = t]

\* DataManager._load_data: self.data.update(json.load(f)) when the file
\* exists and parses; a missing file and a file a failed write left empty
\* leave the data as constructed
load_data(d, f) ==
    IF f.status = "written"
    THEN [k \in DOMAIN d |-> IF k \in DOMAIN f.doc THEN f.doc[k] ELSE d[k]]
    ELSE d

\* the process stops and starts again: importing routers/commands.py and
\* routers/admin.py constructs their DataManager instances, main() makes a
\* MemoryStorage, the middleware instances, and a third DataManager, the only
\* one whose initialize() is called
Restart ==
    /\ data' = FreshData(now)
    /\ admin_data' = FreshData(now)
    /\ main_data' = load_data(FreshData(now), file)
    /\ fsm' = [u \in Users |-> NoSession]
    /\ tasks' = [k \in TaskIds |-> NoTask]
    /\ user_requests' = [k \in Kinds |-> EmptyDict]
    /\ user_message_count' = EmptyDict
    /\ penalties' = EmptyDict
    /\ decision' = NoDecision
    /\ accepted_at' = [k \in Kinds |-> EmptyDict]
    /\ flood_hist' = [u \in Users |-> NoHist]
    /\ ret' = [op |-> "restart", file_status |-> file.status]
    /\ prev_ret' = NoRet
    /\ UNCHANGED <<now, flood_threshold, flood_window, today, file>>

\* routers/admin.py cmd_ban, action "ban": ban_user of the admin instance
AdminBan(user_id, reason, banned_by, w) ==
    LET r == ban_user(admin_data, user_id, reason, banned_by, now, w)
    IN  /\ admin_data' = r.data
        /\ file' = IF r.saved THEN save_data(r.data, file, w) ELSE file
        /\ ret' = [op |-> "admin_ban", user_id |-> user_id, value |-> r.value]
        /\ UNCHANGED <<today, data, prev_ret, fsm, main_data, tasks>>
        /\ UNCHANGED guardVars

\* routers/admin.py cmd_ban, action "unban"
AdminUnban(user_id, unbanned_by, w) ==
    LET r == unban_user(admin_data, user_id, unbanned_by, w)
    IN  /\ admin_data' = r.data
        /\ file' = IF r.saved THEN save_data(r.data, file, w) ELSE file
        /\ ret' = [op |-> "admin_unban", user_id |-> user_id, value |-> r.value]
        /\ UNCHANGED <<today, data, prev_ret, fsm, main_data, tasks>>
        /\ UNCHANGED guardVars

\* routers/admin.py cmd_stats
AdminStats ==
    /\ ret' = [op |-> "admin_stats", value |-> get_bot_statistics(admin_data, now, today)]
    /\ UNCHANGED <<today, data, file, prev_ret>>
    /\ UNCHANGED <<guardVars, appVars>>

\* routers/admin.py cmd_broadcast
AdminBroadcast ==
    /\ ret' = [op |-> "admin_broadcast", value |-> get_all_active_users(admin_data, now)]
    /\ UNCHANGED <<today, data, file, prev_ret>>
    /\ UNCHANGED <<guardVars, appVars>>

\* the users and admins at work in the running bot
NextApp ==
    \/ \E language \in {"ru", "en"}, w \in WriteOutcomes : SetUserLanguage(1, language, w)
    \/ \E input \in WizardInputs, w \in WriteOutcomes : AddHabit(1, input[1], input[2], w)
    \/ \E w \in WriteOutcomes : AdminBan(2, "spam", 7, w)
    \/ \E w \in WriteOutcomes : AdminUnban(2, 7, w)
    \/ AdminStats
    \/ AdminBroadcast
    \/ Restart
SpecApp == Init /\ [][NextApp]_vars

\* ======================================================= creation dialogue
\* A character of a message text is a one-letter string; a letter outside
\* ASCII is written as its code point ("U+0435" is the Cyrillic small ie).
\* str.lower on the Latin and the Cyrillic capitals
UpperCase ==
    <<"A", "B", "C", "D", "E", "F", "G", "H", "I", "J", "K", "L", "M", "N",
      "O", "P", "Q", "R", "S", "T", "U", "V", "W", "X", "Y", "Z", "U+0410",
      "U+0411", "U+0412", "U+0413", "U+0414", "U+0415", "U+0416", "U+0417",
      "U+0418", "U+0419", "U+041A", "U+041B", "U+041C", "U+041D", "U+041E",
      "U+041F", "U+0420", "U+0421", "U+0422", "U+0423", "U+0424", "U+0425",
      "U+0426", "U+0427", "U+0428", "U+0429", "U+042A", "U+042B", "U+042C",
      "U+042D", "U+042E", "U+042F", "U+0401">>
LowerCase ==
    <<"a", "b", "c", "d", "e", "f", "g", "h", "i", "j", "k", "l", "m", "n",
      "o", "p", "q", "r", "s", "t", "u", "v", "w", "x", "y", "z", "U+0430",
      "U+0431", "U+0432", "U+0433", "U+0434", "U+0435", "U+0436", "U+0437",
      "U+0438", "U+0439", "U+043A", "U+043B", "U+043C", "U+043D", "U+043E",
      "U+043F", "U+0440", "U+0441", "U+0442", "U+0443", "U+0444", "U+0445",
      "U+0446", "U+0447", "U+0448", "U+0449", "U+044A", "U+044B", "U+044C",
      "U+044D", "U+044E", "U+044F", "U+0451">>
LowerTable ==
    [c \in {UpperCase[i] : i \in DOMAIN UpperCase} |->
        LowerCase[CHOOSE i \in DOMAIN UpperCase : UpperCase[i] = c]]
lower_char(c) == IF c \in DOMAIN LowerTable THEN LowerTable[c] ELSE c
lower(text) == [i \in DOMAIN text |-> lower_char(text[i])]

\* process_habit_frequency: frequency_map, by key
\* "daily"
FrequencyKey1 ==
    <<"d", "a", "i", "l", "y">>
\* the Russian key read "kazhdyj den'"
FrequencyKey2 ==
    <<"U+043A", "U+0430", "U+0436", "U+0434", "U+044B", "U+0439", " ",
      "U+0434", "U+0435", "U+043D", "U+044C">>
\* the Russian key read "ezhednevno"
FrequencyKey3 ==
    <<"U+0435", "U+0436", "U+0435", "U+0434", "U+043D", "U+0435", "U+0432",
      "U+043D", "U+043E">>
\* "weekly"
FrequencyKey4 ==
    <<"w", "e", "e", "k", "l", "y">>
\* the Russian key read "ezhenedel'no"
FrequencyKey5 ==
    <<"U+0435", "U+0436", "U+0435", "U+043D", "U+0435", "U+0434", "U+0435",
      "U+043B", "U+044C", "U+043D", "U+043E">>
\* the Russian key read "raz v nedelyu"
FrequencyKey6 ==
    <<"U+0440", "U+0430", "U+0437", " ", "U+0432", " ", "U+043D", "U+0435",
      "U+0434", "U+0435", "U+043B", "U+044E">>
\* "3 times a week"
FrequencyKey7 ==
    <<"3", " ", "t", "i", "m", "e", "s", " ", "a", " ", "w", "e", "e", "k">>
\* the Russian key read "3 raza v nedelyu"
FrequencyKey8 ==
    <<"3", " ", "U+0440", "U+0430", "U+0437", "U+0430", " ", "U+0432", " ",
      "U+043D", "U+0435", "U+0434", "U+0435", "U+043B", "U+044E">>
frequency_map ==
    FrequencyKey1 :> "daily" @@
    FrequencyKey2 :> "daily" @@
    FrequencyKey3 :> "daily" @@
    FrequencyKey4 :> "weekly" @@
    FrequencyKey5 :> "weekly" @@
    FrequencyKey6 :> "weekly" @@
    FrequencyKey7 :> "3_times_week" @@
    FrequencyKey8 :> "3_times_week"

\* texts a user sends while the dialogue runs: as a name, those of Names and
\* a second plain one between blanks; as a frequency, texts typed with
\* capitals and blanks, in Russian, and one that frequency_map does not hold
TextDailyPadded ==
    <<" ", "D", "a", "i", "l", "y", " ">>
TextDailyRussian ==
    <<"U+0415", "U+0436", "U+0435", "U+0434", "U+043D", "U+0435", "U+0432",
      "U+043D", "U+043E">>
TextThreeTimes ==
    <<"3", " ", "T", "i", "m", "e", "s", " ", "a", " ", "W", "e", "e", "k">>
TextHourly ==
    <<"h", "o", "u", "r", "l", "y">>
NameTexts == Names \cup {TextDailyPadded}
FrequencyTexts == {TextDailyPadded, TextDailyRussian, TextThreeTimes, TextHourly}

\* cmd_add_habit: state.set_state(waiting_for_name); the data of the session
\* is not touched
cmd_add_habit(s) == [s EXCEPT !.state = "waiting_for_name"]

\* a slip in process_habit_name: the name is stored before its length is tested
process_habit_name_storing(s, text) ==
    LET habit_name == strip(text)
    IN  IF Len(habit_name) < MIN_NAME_LENGTH \/ Len(habit_name) > MAX_NAME_LENGTH
        THEN [value |-> "habit_name_length_error",
              session |-> [s EXCEPT !.data = Put(s.data, "habit_name", habit_name)]]
        ELSE [value |-> "add_habit_frequency_prompt",
              session |-> [state |-> "waiting_for_frequency",
                           data |-> Put(s.data, "habit_name", habit_name)]]

\* a slip in process_habit_name: no test of the length
process_habit_name_unchecked(s, text) ==
    LET habit_name == strip(text)
    IN  [value |-> "add_habit_frequency_prompt",
         session |-> [state |-> "waiting_for_frequency",
                      data |-> Put(s.data, "habit_name", habit_name)]]

\* process_habit_name: the reply sent and the session afterwards
process_habit_name(s, text) ==
    LET habit_name == strip(text)
    IN  IF Len(habit_name) < MIN_NAME_LENGTH \/ Len(habit_name) > MAX_NAME_LENGTH
        THEN [value |-> "habit_name_length_error", session |-> s]
        ELSE [value |-> "add_habit_frequency_prompt",
              session |-> [state |-> "waiting_for_frequency",
                           data |-> Put(s.data, "habit_name", habit_name)]]

\* a slip in process_habit_frequency: the text is looked up as typed
process_habit_frequency_as_typed(s, d, user_id, text, habit_id, t, w) ==
    LET frequency_text == strip(text)
    IN  IF frequency_text \notin DOMAIN frequency_map
        THEN [value |-> "invalid_frequency_error", session |-> s, data |-> d,
              saved |-> FALSE]
        ELSE LET r == add_habit(d, user_id, s.data["habit_name"],
                                frequency_map[frequency_text], habit_id, t, w)
             IN  [value |-> IF r.value THEN "habit_created_success"
                                       ELSE "habit_creation_error",
                  session |-> NoSession, data |-> r.data, saved |-> r.saved]

\* process_habit_frequency: the reply sent, the session and the dataset
\* afterwards; state.clear() runs whatever add_habit returned
process_habit_frequency(s, d, user_id, text, habit_id, t, w) ==
    LET frequency_text == lower(strip(text))
    IN  IF frequency_text \notin DOMAIN frequency_map
        THEN [value |-> "invalid_frequency_error", session |-> s, data |-> d,
              saved |-> FALSE]
        ELSE LET r == add_habit(d, user_id, s.data["habit_name"],
                                frequency_map[frequency_text], habit_id, t, w)
             IN  [value |-> IF r.value THEN "habit_created_success"
                                       ELSE "habit_creation_error",
                  session |-> NoSession, data |-> r.data, saved |-> r.saved]

\* handle_cancel_button: the handler takes no FSMContext; the session is as
\* before
handle_cancel_button(s) == s

\* /add_habit, which the dispatcher hands to cmd_add_habit in every state
CmdAddHabit(user_id) ==
    /\ fsm' = [fsm EXCEPT ![user_id] = cmd_add_habit(@)]
    /\ ret' = [op |-> "cmd_add_habit", user_id |-> user_id,
               value |-> "add_habit_name_prompt", text |-> <<>>]
    /\ UNCHANGED <<today, data, file, prev_ret, admin_data, main_data, tasks>>
    /\ UNCHANGED guardVars

\* a text message while the user is in waiting_for_name
ProcessHabitName(user_id, text) ==
    /\ fsm[user_id].state = "waiting_for_name"
    /\ LET r == process_habit_name(fsm[user_id], text)
       IN  /\ fsm' = [fsm EXCEPT ![user_id] = r.session]
           /\ ret' = [op |-> "process_habit_name", user_id |-> user_id,
                      value |-> r.value, text |-> text]
    /\ UNCHANGED <<today, data, file, prev_ret, admin_data, main_data, tasks>>
    /\ UNCHANGED guardVars

\* a text message while the user is in waiting_for_frequency
ProcessHabitFrequency(user_id, text, w) ==
    /\ fsm[user_id].state = "waiting_for_frequency"
    /\ \E habit_id \in HabitIds :
           /\ habit_id \in uuid4(data) \/ lower(strip(text)) \notin DOMAIN frequency_map
           /\ LET r == process_habit_frequency(fsm[user_id], data, user_id, text,
                                               habit_id, now, w)
              IN  /\ fsm' = [fsm EXCEPT ![user_id] = r.session]
                  /\ data' = r.data
                  /\ file' = IF r.saved THEN save_data(r.data, file, w) ELSE file
                  /\ ret' = [op |-> "process_habit_frequency", user_id |-> user_id,
                             value |-> r.value, text |-> text]
    /\ UNCHANGED <<today, prev_ret, admin_data, main_data, tasks>>
    /\ UNCHANGED guardVars

\* a press on an inline "cancel" button
HandleCancelButton(user_id) ==
    /\ fsm' = [fsm EXCEPT ![user_id] = handle_cancel_button(@)]
    /\ ret' = [op |-> "handle_cancel_button", user_id |-> user_id,
               value |-> "action_canceled", text |-> <<>>]
    /\ UNCHANGED <<today, data, file, prev_ret, admin_data, main_data, tasks>>
    /\ UNCHANGED guardVars

NextWizard ==
    \/ \E user_id \in Users : CmdAddHabit(user_id)
    \/ \E user_id \in Users, text \in NameTexts : ProcessHabitName(user_id, text)
    \/ \E user_id \in Users, text \in FrequencyTexts, w \in WriteOutcomes :
           ProcessHabitFrequency(user_id, text, w)
    \/ \E user_id \in Users : HandleCancelButton(user_id)
SpecWizard == Init /\ [][NextWizard]_vars

\* ====================================================== handlers as tasks
\* Dispatcher.start_polling hands every update to a task of its own, and
\* Dispatcher(storage=storage) sets no events isolation: a handler runs up
\* to an await that waits for the network, and other handlers, also of the
\* same user, run while it waits. The DataManager methods and the
\* MemoryStorage calls do not wait: open() and json.dump block the loop.

\* state.clear()
state_clear(s) == NoSession

\* process_habit_frequency up to its reply: the state filter, the lookup and
\* add_habit; the task then waits in message.answer
ProcessHabitFrequencyBegin(k, user_id, text, w) ==
    /\ tasks[k].at = "idle"
    /\ fsm[user_id].state = "waiting_for_frequency"
    /\ \E habit_id \in HabitIds :
           /\ habit_id \in uuid4(data) \/ lower(strip(text)) \notin DOMAIN frequency_map
           /\ LET r == process_habit_frequency(fsm[user_id], data, user_id, text,
                                               habit_id, now, w)
              IN  /\ data' = r.data
                  /\ file' = IF r.saved THEN save_data(r.data, file, w) ELSE file
                  /\ tasks' = [tasks EXCEPT ![k] =
                                   [at |-> "answer", op |-> "process_habit_frequency",
                                    user_id |-> user_id, value |-> r.value,
                                    habit_id |-> IF r.saved THEN habit_id ELSE "none"]]
                  /\ ret' = [op |-> "process_habit_frequency", user_id |-> user_id,
                             value |-> r.value, text |-> text]
    /\ UNCHANGED <<today, prev_ret, fsm, admin_data, main_data>>
    /\ UNCHANGED guardVars

\* process_habit_frequency after its reply: state.clear() when a frequency
\* was found, nothing after the error reply
ProcessHabitFrequencyEnd(k) ==
    /\ tasks[k].at = "answer"
    /\ tasks[k].op = "process_habit_frequency"
    /\ fsm' = IF tasks[k].value = "invalid_frequency_error" THEN fsm
              ELSE [fsm EXCEPT ![tasks[k].user_id] = state_clear(@)]
    /\ tasks' = [tasks EXCEPT ![k] = NoTask]
    /\ ret' = [op |-> "state_clear", user_id |-> tasks[k].user_id,
               value |-> tasks[k].value, text |-> <<>>]
    /\ UNCHANGED <<today, data, file, prev_ret, admin_data, main_data>>
    /\ UNCHANGED guardVars

\* the creation dialogue of one user whose messages are handled as tasks
NextOverlap ==
    \/ CmdAddHabit(1)
    \/ \E text \in NameTexts : ProcessHabitName(1, text)
    \/ \E k \in TaskIds, text \in FrequencyTexts, w \in WriteOutcomes :
           ProcessHabitFrequencyBegin(k, 1, text, w)
    \/ \E k \in TaskIds : ProcessHabitFrequencyEnd(k)
SpecOverlap == Init /\ [][NextOverlap]_vars

\* process_habit_checkin up to the first await that waits: the test
\* is_checked_in_today, then record_checkin
process_habit_checkin(d, user_id, habit_id, day, w) ==
    IF is_checked_in_today(d, user_id, habit_id, day)
    THEN [value |-> "already_checked_in", data |-> d, saved |-> FALSE]
    ELSE LET r == record_checkin(d, user_id, habit_id, day, w)
         IN  [value |-> IF r.value THEN "checkin_success" ELSE "checkin_error",
              data |-> r.data, saved |-> r.saved]

\* a press on a "checkin_<habit id>" button: the handler runs to the end of
\* record_checkin and then waits for the quote or for its reply
ProcessHabitCheckinBegin(k, user_id, habit_id, w) ==
    /\ tasks[k].at = "idle"
    /\ LET r == process_habit_checkin(data, user_id, habit_id, today, w)
       IN  /\ data' = r.data
           /\ file' = IF r.saved THEN save_data(r.data, file, w) ELSE file
           /\ tasks' = [tasks EXCEPT ![k] =
                            [at |-> "answer", op |-> "process_habit_checkin",
                             user_id |-> user_id, habit_id |-> habit_id,
                             value |-> r.value, day |-> today,
                             exists_before |->
                                 checkin_id(user_id, habit_id, today) \in DOMAIN data.checkins,
                             write |-> IF r.saved THEN w ELSE "none"]]
           /\ ret' = [op |-> "process_habit_checkin", user_id |-> user_id,
                      habit_id |-> habit_id, value |-> r.value]
    /\ UNCHANGED <<today, prev_ret, fsm, admin_data, main_data>>
    /\ UNCHANGED guardVars

\* the quote has come and the reply is sent: the handler returns
ProcessHabitCheckinEnd(k) ==
    /\ tasks[k].at = "answer"
    /\ tasks[k].op = "process_habit_checkin"
    /\ tasks' = [tasks EXCEPT ![k] = NoTask]
    /\ ret' = [op |-> "callback_answer", user_id |-> tasks[k].user_id,
               habit_id |-> tasks[k].habit_id, value |-> tasks[k].value]
    /\ UNCHANGED <<today, data, file, prev_ret, fsm, admin_data, main_data>>
    /\ UNCHANGED guardVars

\* process_habit_checkin from the press to its return, no other handler
\* running meanwhile
ProcessHabitCheckin(user_id, habit_id, w) ==
    LET r == process_habit_checkin(data, user_id, habit_id, today, w)
    IN  /\ data' = r.data
        /\ file' = IF r.saved THEN save_data(r.data, file, w) ELSE file
        /\ ret' = [op |-> "process_habit_checkin", user_id |-> user_id,
                   habit_id |-> habit_id, value |-> r.value]
        /\ UNCHANGED <<today, prev_ret>>
        /\ UNCHANGED <<guardVars, appVars>>

\* check-in buttons pressed by two users on one day, handled as tasks
NextCheckins ==
    \/ \E k \in TaskIds, user_id \in Users, habit_id \in HabitIds, w \in WriteOutcomes :
           ProcessHabitCheckinBegin(k, user_id, habit_id, w)
    \/ \E k \in TaskIds : ProcessHabitCheckinEnd(k)
SpecCheckins == Init /\ [][NextCheckins]_vars

\* ------------------------------------------------- check-ins over the days
\* the store used by an owner of habits (user 1), a second user who presses
\* the check-in button of habit h1 too, and an administrator
NextLedger ==
    \/ AddHabit(1, <<"r", "u", "n">>, "daily", "ok")
    \/ \E user_id \in Users, w \in WriteOutcomes : ProcessHabitCheckin(user_id, "h1", w)
    \/ DeleteHabit(1, "h1", "ok")
    \/ BanUser(2, "spam", 7, "ok")
    \/ UnbanUser(2, 7, "ok")
    \/ NextDay
SpecLedger == Init /\ [][NextLedger]_vars

\* --------------------------------------------------- a user under a ban
\* user 1 goes on using the bot while an administrator bans and unbans them;
\* the ban is written to the dataset the handlers of the user read
NextBanned ==
    \/ \E w \in WriteOutcomes : BanUser(1, "spam", 7, w)
    \/ UnbanUser(1, 7, "ok")
    \/ SetUserLanguage(1, "ru", "ok")
    \/ CmdAddHabit(1)
    \/ ProcessHabitName(1, <<"r", "u", "n">>)
    \/ ProcessHabitFrequency(1, TextDailyPadded, "ok")
    \/ \E habit_id \in HabitIds : ProcessHabitCheckin(1, habit_id, "ok")
    \/ \E habit_id \in HabitIds : DeleteHabit(1, habit_id, "ok")
SpecBanned == Init /\ [][NextBanned]_vars

\* ================================================================ claims
\* records of a check-in collection for one habit and one date
CheckinsOf(checkins, habit_id, day) ==
    {id \in DOMAIN checkins :
        checkins[id].habit_id = habit_id /\ checkins[id].date = day}

\* C1: the store holds at most one check-in record for each (habit id,
\* calendar date), whichever users performed the check-ins.
C1_OneCheckinPerHabitDay ==
    \A habit_id \in HabitIds, day \in 0..MaxDay :
        /\ Cardinality(CheckinsOf(data.checkins, habit_id, day)) <= 1
        /\ (file.status = "written" =>
               Cardinality(CheckinsOf(file.doc.checkins, habit_id, day)) <= 1)

C1_Witness ==
    /\ ret.op = "record_checkin"
    /\ prev_ret.op = "record_checkin"
    /\ ret.habit_id = prev_ret.habit_id
    /\ ret.user_id # prev_ret.user_id
    /\ prev_ret.value
    /\ ~ret.value
    /\ Cardinality(CheckinsOf(data.checkins, ret.habit_id, today)) = 1

\* two record_checkin calls in a row by the same user for the same habit (the
\* day is the same: midnight clears ret and prev_ret)
TwoCallsInARow ==
    /\ ret.op = "record_checkin"
    /\ prev_ret.op = "record_checkin"
    /\ ret.user_id = prev_ret.user_id
    /\ ret.habit_id = prev_ret.habit_id

TrueThenFalsePlusOne ==
    /\ prev_ret.value = TRUE
    /\ ret.value = FALSE
    /\ get_total_checkins(data, ret.user_id, ret.habit_id) = prev_ret.total_before + 1

C3_PacingGate ==
    (decision.via \in Kinds /\ decision.uid # None) =>
        /\ (decision.elapsed = -1 => decision.handler)
        /\ (decision.elapsed >= 0 /\ decision.elapsed < rate_limit =>
               /\ ~decision.handler
               /\ decision.reason = "pacing"
               /\ decision.wait = rate_limit - decision.elapsed
               /\ decision.wait > 0)
        /\ (decision.elapsed >= rate_limit => decision.handler /\ decision.wait = 0)
        /\ (decision.handler /\ decision.elapsed # -1 => decision.elapsed >= rate_limit)

C3_Witness ==
    /\ decision.via = "message"
    /\ decision.uid = 1
    /\ ~decision.handler
    /\ decision.elapsed = 1
    /\ decision.wait = rate_limit - 1

\* C4: pacing gate: an admitted action sets the user's last-accepted timestamp
\* to now; a rejected action leaves that timestamp and every other entry of
\* the map unchanged.
C4_PacingFrame ==
    [][\A kind \in Kinds, uid \in Users :
          Dispatch(kind, uid) =>
              /\ (decision'.handler =>
                     /\ uid \in DOMAIN user_requests'[kind]
                     /\ user_requests'[kind][uid] = now)
              /\ (~decision'.handler => user_requests' = user_requests)]_vars

C4_Witness ==
    /\ decision.via = "callback_query"
    /\ decision.uid = 2
    /\ ~decision.handler
    /\ 1 \in DOMAIN user_requests["callback_query"]
    /\ user_requests["callback_query"][2] < now

\* C5: an event without a user identity is admitted by the pacing gate and by
\* the flood gate, and changes no per-user rate state.
C5_NoIdentityBypass ==
    [][/\ Dispatch("message", None) =>
             /\ decision'.handler
             /\ UNCHANGED <<user_requests, user_message_count, penalties>>
       /\ FloodCall(None) =>
             /\ decision'.handler
             /\ UNCHANGED <<user_requests, user_message_count, penalties>>]_vars

C5_Witness ==
    /\ decision.uid = None
    /\ decision.via = "antiflood"
    /\ decision.handler
    /\ penalties # EmptyDict
    /\ user_requests["message"] # EmptyDict

\* C6: flood gate with the default threshold and window: for a user not
\* serving a penalty the actions are admitted while fewer than `threshold`
\* admitted actions lie inside the window; the action that exceeds the
\* threshold is rejected and starts a penalty; every action of a user serving
\* a penalty is rejected.
C6_FloodGate ==
    (/\ decision.via = "antiflood"
     /\ decision.uid # None
     /\ flood_threshold = DEFAULT_FLOOD_THRESHOLD
     /\ flood_window = Seconds(DEFAULT_FLOOD_WINDOW)) =>
        /\ (decision.serving => ~decision.handler /\ decision.penalty = 0)
        /\ (~decision.serving /\ decision.prior < flood_threshold => decision.handler)
        /\ (~decision.serving /\ decision.prior >= flood_threshold =>
               /\ ~decision.handler
               /\ decision.penalty > 0
               /\ decision.uid \in DOMAIN penalties
               /\ penalties[decision.uid] > now)

C6_Witness ==
    /\ decision.via = "antiflood"
    /\ decision.uid = 1
    /\ flood_threshold = DEFAULT_FLOOD_THRESHOLD
    /\ decision.prior = DEFAULT_FLOOD_THRESHOLD
    /\ decision.penalty > 0
    /\ now > 0

\* the durations of the claim: 30, 90, 270, 810, 900, 900, ...
EscalatedPenalty(k) == Min(PENALTY_BASE * (PENALTY_FACTOR ^ (k - 1)), PENALTY_CAP)

\* C7: a user's first penalty lasts 30 seconds and each further penalty of the
\* same user triples the previous duration, capped at 900 seconds.
C7_PenaltyEscalation ==
    decision.penalty > 0 => decision.penalty = EscalatedPenalty(decision.nth)

\* C8: when the flood gate puts a user into a penalty, the user's sliding
\* window is empty immediately afterwards.
C8_WindowCleared ==
    decision.penalty > 0 =>
        \/ decision.uid \notin DOMAIN user_message_count
        \/ user_message_count[decision.uid] = <<>>

\* C9: for every window length and threshold, after a penalty has expired the
\* next `threshold` actions of the user are admitted before a new penalty can
\* start.
C9_FreshWindowAfterExpiry ==
    (/\ decision.via = "antiflood"
     /\ decision.uid # None
     /\ decision.nth - (IF decision.penalty > 0 THEN 1 ELSE 0) > 0
     /\ ~decision.serving
     /\ decision.since < flood_threshold) => decision.handler

\* C10: in the assembled bot an identified user's action reaches a handler
\* only after passing both the pacing gate and the flood gate.
C10_BothGatesBeforeHandler ==
    (decision.via \in Kinds /\ decision.uid # None /\ decision.handler) =>
        {"pacing", "flood"} \subseteq decision.gates

\* entries of the pacing map removed by the step
Removed(kind) == (DOMAIN user_requests[kind]) \ (DOMAIN user_requests'[kind])

C12_AlreadyInState ==
    [][/\ \A u \in Users, reason \in Reasons, a \in Admins, w \in WriteOutcomes :
             (BanUser(u, reason, a, w) /\ is_user_banned(data, u)) =>
                 /\ ~ret'.value
                 /\ data'.banned_users[u] = data.banned_users[u]
       /\ \A u \in Users, a \in Admins, w \in WriteOutcomes :
             (UnbanUser(u, a, w) /\ ~is_user_banned(data, u)) =>
                 /\ ~ret'.value
                 /\ data' = data
                 /\ file' = file]_vars

\* C13: after any sequence of ban and unban operations, isBanned(u) is true
\* exactly when a ban record for u is present, banStatus(u) returns
\* (isBanned(u), that record or none), a successful ban makes isBanned(u)
\* true and a successful unban makes it false.
C13_BanConsistency ==
    /\ \A u \in Users :
          /\ is_user_banned(data, u) <=> u \in DOMAIN data.banned_users
          /\ get_ban_status(data, u)[1] = is_user_banned(data, u)
          /\ get_ban_status(data, u)[2] =
                 (IF is_user_banned(data, u) THEN data.banned_users[u] ELSE NoRecord)
          /\ is_user_banned(data, u) => data.banned_users[u].user_id = u
    /\ (ret.op = "ban_user" /\ ret.value) => is_user_banned(data, ret.user_id)
    /\ (ret.op = "unban_user" /\ ret.value) => ~is_user_banned(data, ret.user_id)

C13_Witness ==
    /\ ret.op = "unban_user"
    /\ ret.value
    /\ ret.banned_before
    /\ ~is_user_banned(data, ret.user_id)
    /\ \E u \in Users : is_user_banned(data, u) /\ data.banned_users[u].banned_at < now

\* C14: for every valid (name, frequency), createHabit(u, name, frequency) adds
\* exactly one habit with a fresh id distinct from all existing habit ids;
\* getHabit(u, id) then returns a habit with active=true, owner u and the given
\* name and frequency, and no existing habit is changed.
C14_CreateHabit ==
    [][\A u \in Users, input \in WizardInputs, w \in WriteOutcomes :
          AddHabit(u, input[1], input[2], w) =>
              LET habit == get_habit(data', u, ret'.habit_id)
              IN  /\ Len(data'.habits) = Len(data.habits) + 1
                  /\ Cardinality(HabitKeys(data')) = Cardinality(HabitKeys(data)) + 1
                  /\ ret'.habit_id \notin HabitKeys(data)
                  /\ habit # NoHabit
                  /\ habit.active = TRUE
                  /\ habit.user_id = u
                  /\ habit.name = input[1]
                  /\ habit.frequency = input[2]
                  /\ SubSeq(data'.habits, 1, Len(data.habits)) = data.habits]_vars

C14_Witness ==
    /\ ret.op = "add_habit"
    /\ Len(data.habits) = 2
    /\ get_habit(data, ret.user_id, ret.habit_id).active
    /\ get_habit(data, ret.user_id, ret.habit_id).frequency = "weekly"
    /\ \E h \in Range(data.habits) : h.id # ret.habit_id /\ ~h.active

\* C15 as stated: createHabit called with a name whose trimmed length is below
\* 2 or above 50, or with a frequency outside the enum, fails with a
\* validation error and leaves the store unchanged.
C15_ValidationRefuses ==
    [][\A u \in Users, name \in Names, frequency \in Frequencies, w \in WriteOutcomes :
          (AddHabit(u, name, frequency, w)
              /\ (~name_accepted(name) \/ ~frequency_accepted(frequency))) =>
              /\ ~ret'.value
              /\ data' = data
              /\ file' = file]_vars

\* habit_id names no habit, or a habit of a user other than u
NotOwn(d, u, habit_id) ==
    habit_id \notin HabitKeys(d) \/ habits_get(d, habit_id).user_id # u

\* C16: ownership is enforced on habit access: getHabit(u, id) returns
\* not-found and softDeleteHabit(u, id) returns false without changing any
\* habit whenever the habit does not exist or belongs to a user other than u;
\* no user can read or deactivate another user's habit.
C16_Ownership ==
    [][/\ \A u \in Users, habit_id \in HabitIds :
             NotOwn(data', u, habit_id) => get_habit(data', u, habit_id) = NoHabit
       /\ \A u \in Users, habit_id \in HabitIds, w \in WriteOutcomes :
             (DeleteHabit(u, habit_id, w) /\ NotOwn(data, u, habit_id)) =>
                 /\ ~ret'.value
                 /\ data'.habits = data.habits
                 /\ file' = file]_vars

C16_Witness ==
    /\ ret.op = "delete_habit"
    /\ ~ret.value
    /\ ret.habit_id \in HabitKeys(data)
    /\ habits_get(data, ret.habit_id).user_id # ret.user_id
    /\ habits_get(data, ret.habit_id).active
    /\ get_habit(data, ret.user_id, ret.habit_id) = NoHabit

\* C17: listHabits(u) returns exactly the habits that are owned by u and
\* active, each once, ordered by creation time ascending.
C17_ListHabits ==
    \A u \in Users :
        LET listed == get_user_habits(data, u)
            own == {h \in Range(data.habits) : h.user_id = u /\ h.active}
        IN  /\ Range(listed) = own
            /\ Len(listed) = Cardinality(own)
            /\ \A i, j \in DOMAIN listed :
                   i < j => listed[i].created_at <= listed[j].created_at

C17_Witness ==
    \E u \in Users :
        LET listed == get_user_habits(data, u)
        IN  /\ Len(listed) = 2
            /\ listed[1].created_at < listed[2].created_at

\* C18: a successful softDeleteHabit(u, id) sets only that habit's active flag
\* to false and its deletion timestamp; the habit record and all its check-in
\* records are retained, so the habit disappears from listHabits(u) while
\* totalCheckIns(u, id) and the statistics totals for habits and check-ins are
\* unchanged.
C18_SoftDelete ==
    [][(/\ ret'.op = "delete_habit"
        /\ ret'.value
        /\ DeleteHabit(ret'.user_id, ret'.habit_id, "ok")) =>
              LET u == ret'.user_id
                  habit_id == ret'.habit_id
                  before == habits_get(data, habit_id)
                  after == habits_get(data', habit_id)
                  stats_before == get_bot_statistics(data, now, today)
                  stats_after == get_bot_statistics(data', now, today)
              IN  /\ before # NoHabit
                  /\ after # NoHabit
                  /\ after.active = FALSE
                  /\ after.deleted_at = now
                  /\ DOMAIN after = (DOMAIN before) \cup {"deleted_at"}
                  /\ \A k \in (DOMAIN before) \ {"active", "deleted_at"} : after[k] = before[k]
                  /\ Len(data'.habits) = Len(data.habits)
                  /\ \A i \in DOMAIN data.habits :
                         data.habits[i].id # habit_id => data'.habits[i] = data.habits[i]
                  /\ data'.checkins = data.checkins
                  /\ data'.users = data.users
                  /\ data'.banned_users = data.banned_users
                  /\ \A i \in DOMAIN get_user_habits(data', u) :
                         get_user_habits(data', u)[i].id # habit_id
                  /\ \A v \in Users, h \in HabitIds :
                         get_total_checkins(data', v, h) = get_total_checkins(data, v, h)
                  /\ stats_after.total_habits = stats_before.total_habits
                  /\ stats_after.total_checkins = stats_before.total_checkins
                  /\ stats_after.checkins_today = stats_before.checkins_today]_vars

C18_Witness ==
    /\ ret.op = "delete_habit"
    /\ ret.value
    /\ ~habits_get(data, ret.habit_id).active
    /\ habits_get(data, ret.habit_id).created_at < habits_get(data, ret.habit_id).deleted_at
    /\ get_total_checkins(data, ret.user_id, ret.habit_id) = 1
    /\ get_bot_statistics(data, now, today).total_habits = 2
    /\ get_bot_statistics(data, now, today).active_habits = 1
    /\ Len(get_user_habits(data, ret.user_id)) = 1

\* the days on which a check-in record for habit h exists
DaysWithCheckin(h) == {id[2] : id \in {x \in DOMAIN data.checkins : x[1] = h}}

\* the days on which a check-in record for habit h made by user u exists
DaysCheckedBy(u, h) ==
    {id[2] : id \in {x \in DOMAIN data.checkins : x[1] = h /\ data.checkins[x].user_id = u}}

\* the number of consecutive days of the set, from today backward, stopping at
\* the first day outside it and never exceeding 365
ConsecutiveDays(days) ==
    CHOOSE n \in 0..STREAK_LOOKBACK_DAYS :
        /\ \A i \in 0..(n - 1) : (today - i) \in days
        /\ (n = STREAK_LOOKBACK_DAYS \/ (today - n) \notin days)

\* C19 as stated: currentStreak(u, h, today) equals the number of consecutive
\* calendar days, starting at today and walking backward, on which a check-in
\* for h exists, stopping at the first day without one and never exceeding
\* 365; it is 0 when there is no check-in today.
C19_StreakOfHabit ==
    \A u \in Users, h \in HabitIds :
        /\ get_current_streak(data, u, h, today) = ConsecutiveDays(DaysWithCheckin(h))
        /\ (today \notin DaysWithCheckin(h) => get_current_streak(data, u, h, today) = 0)

\* C19 amended: currentStreak(u, h, today) equals the number of consecutive
\* calendar days, starting at today and walking backward, on which a check-in
\* for h made by u exists, stopping at the first day without one and never
\* exceeding 365; it is 0 when u has no check-in for h today.
C19_StreakOfUser ==
    \A u \in Users, h \in HabitIds :
        /\ get_current_streak(data, u, h, today) = ConsecutiveDays(DaysCheckedBy(u, h))
        /\ (today \notin DaysCheckedBy(u, h) => get_current_streak(data, u, h, today) = 0)

C19_Witness ==
    /\ ret.op = "get_current_streak"
    /\ ret.value = STREAK_LOOKBACK_DAYS
    /\ Cardinality(DaysCheckedBy(ret.user_id, ret.habit_id)) > STREAK_LOOKBACK_DAYS
    /\ ConsecutiveDays(DaysCheckedBy(ret.user_id, ret.habit_id)) = ret.value

\* users whose language is lang
UsersSpeaking(lang) == {u \in DOMAIN data.users : data.users[u].language = lang}

\* the counts C20 names other than the per-language counts, and the
\* most-common frequency
ExactCounts(stats) ==
    /\ stats.total_users = Cardinality(DOMAIN data.users)
    /\ stats.active_users_7d =
           Cardinality({u \in DOMAIN data.users :
                           now - data.users[u].last_active <= ACTIVE_DAYS * DayTicks})
    /\ stats.new_users_today =
           Cardinality({u \in DOMAIN data.users : data.users[u].created_at \div DayTicks = today})
    /\ stats.russian_users + stats.english_users = stats.total_users
    /\ stats.total_habits = Cardinality(HabitKeys(data))
    /\ stats.active_habits = Cardinality({h \in Range(data.habits) : h.active})
    /\ stats.total_checkins = Cardinality(DOMAIN data.checkins)
    /\ stats.checkins_today = Cardinality({id \in DOMAIN data.checkins : id[2] = today})
    /\ stats.banned_users = Cardinality({u \in Users : is_user_banned(data, u)})
    /\ \A f \in Frequencies :
           Cardinality({h \in Range(data.habits) : h.active /\ h.frequency = f})
               <= Cardinality({h \in Range(data.habits) :
                                  h.active /\ h.frequency = stats.most_popular_frequency})

\* C20 as stated: statistics() reproduces exact counts of the current dataset:
\* total users, users active in the last 7 days, users created today,
\* per-language user counts (which sum to total users), total and active
\* habits, total and today's check-ins, banned users, and a most-common
\* frequency whose count among active habits is not exceeded by any other
\* frequency.
C20_ExactStatistics ==
    LET stats == get_bot_statistics(data, now, today)
    IN  /\ ExactCounts(stats)
        /\ stats.russian_users = Cardinality(UsersSpeaking("ru"))
        /\ stats.english_users = Cardinality(UsersSpeaking("en"))

\* C20 amended: as stated, with the per-language counts being the users whose
\* language is ru and all other users (the latter reported as English users).
C20_StatisticsTwoWaySplit ==
    LET stats == get_bot_statistics(data, now, today)
    IN  /\ ExactCounts(stats)
        /\ stats.russian_users = Cardinality(UsersSpeaking("ru"))
        /\ stats.english_users = Cardinality((DOMAIN data.users) \ UsersSpeaking("ru"))

C20_Witness ==
    /\ ret.op = "get_bot_statistics"
    /\ ret.value.total_users = 2
    /\ ret.value.active_users_7d = 1
    /\ ret.value.new_users_today = 1
    /\ ret.value.russian_users = 1
    /\ UsersSpeaking("de") # {}
    /\ ret.value.total_habits = 3
    /\ ret.value.active_habits = 2
    /\ ret.value.most_popular_frequency = "weekly"
    /\ data.habits[1].frequency = "daily"
    /\ ret.value.total_checkins = 2
    /\ ret.value.checkins_today = 1
    /\ ret.value.banned_users = 1

\* C21: activeUsersForBroadcast() returns exactly the users that are not banned
\* and whose last activity is within the last 7 days; a banned user is never in
\* the result.
C21_BroadcastList ==
    LET result == get_all_active_users(data, now)
    IN  /\ \A u \in Users :
              (\E r \in result : r.user_id = u) <=>
                  /\ u \in DOMAIN data.users
                  /\ u \notin DOMAIN data.banned_users
                  /\ now - data.users[u].last_active <= ACTIVE_DAYS * DayTicks
        /\ \A r \in result : r.user_id \in DOMAIN data.users /\ r = data.users[r.user_id]
        /\ \A r \in result : ~is_user_banned(data, r.user_id)

C21_Witness ==
    /\ ret.op = "get_all_active_users"
    /\ Cardinality(ret.value) = 1
    /\ DOMAIN data.users = Users
    /\ \E u \in Users :
          /\ is_user_banned(data, u)
          /\ data.users[u].last_active = now
    /\ \E r \in ret.value : r.last_active = now - ACTIVE_DAYS * DayTicks

\* the step leaves every user other than u, and every other collection, as
\* it was
OnlyUserTouched(u) ==
    /\ (DOMAIN data'.users) \ {u} = (DOMAIN data.users) \ {u}
    /\ \A v \in (DOMAIN data.users) \ {u} : data'.users[v] = data.users[v]
    /\ data'.habits = data.habits
    /\ data'.checkins = data.checkins
    /\ data'.banned_users = data.banned_users

\* C22: upsertUserLanguage(u, lang) creates the user record if absent and
\* otherwise changes only the language and last-activity of u (creation time
\* and all other users unchanged); touchActivity(u) changes only u's
\* last-activity when u exists and changes nothing, creating no user, when u
\* does not exist.
C22_UserFrames ==
    [][/\ \A language \in Languages, w \in WriteOutcomes :
             (ret'.op = "set_user_language"
                 /\ SetUserLanguage(ret'.user_id, language, w)) =>
                 LET u == ret'.user_id
                 IN  /\ OnlyUserTouched(u)
                     /\ u \in DOMAIN data'.users
                     /\ data'.users[u].language = language
                     /\ data'.users[u].last_active = now
                     /\ data'.users[u].user_id = u
                     /\ IF u \in DOMAIN data.users
                        THEN /\ DOMAIN data'.users[u] = DOMAIN data.users[u]
                             /\ \A k \in (DOMAIN data.users[u]) \ {"language", "last_active"} :
                                    data'.users[u][k] = data.users[u][k]
                        ELSE data'.users[u].created_at = now
       /\ \A w \in WriteOutcomes :
             (ret'.op = "update_user_activity"
                 /\ UpdateUserActivity(ret'.user_id, w)) =>
                 LET u == ret'.user_id
                 IN  IF u \in DOMAIN data.users
                     THEN /\ OnlyUserTouched(u)
                          /\ DOMAIN data'.users[u] = DOMAIN data.users[u]
                          /\ \A k \in (DOMAIN data.users[u]) \ {"last_active"} :
                                 data'.users[u][k] = data.users[u][k]
                          /\ data'.users[u].last_active = now
                     ELSE data' = data /\ file' = file]_vars

C22_Witness ==
    /\ ret.op = "set_user_language"
    /\ ret.known_before
    /\ data.users[ret.user_id].created_at < data.users[ret.user_id].last_active
    /\ data.users[ret.user_id].language = "ru"
    /\ DOMAIN data.users = Users

\* the step is a mutating store operation that reported success to its caller
ReturnedSuccess ==
    \/ ret'.op = "add_habit" /\ ret'.value = TRUE
    \/ ret'.op = "set_user_language" /\ ret'.value = "returned"
    \/ ret'.op = "admin_ban" /\ ret'.value = TRUE
    \/ ret'.op = "admin_unban" /\ ret'.value = TRUE

\* the effect of the operation the step made is in the document doc
EffectIn(doc) ==
    CASE ret'.op = "add_habit" ->
             \E i \in DOMAIN doc.habits :
                 doc.habits[i].id = ret'.habit_id /\ doc.habits[i].user_id = ret'.user_id
      [] ret'.op = "set_user_language" ->
             /\ ret'.user_id \in DOMAIN doc.users
             /\ doc.users[ret'.user_id].language = data'.users[ret'.user_id].language
      [] ret'.op = "admin_ban" -> ret'.user_id \in DOMAIN doc.banned_users
      [] ret'.op = "admin_unban" -> ret'.user_id \notin DOMAIN doc.banned_users

\* every user, habit and ban of document old is in document new, but for the
\* ban the step itself lifted
KeptIn(old, new) ==
    /\ DOMAIN old.users \subseteq DOMAIN new.users
    /\ {old.habits[i].id : i \in DOMAIN old.habits} \subseteq
           {new.habits[i].id : i \in DOMAIN new.habits}
    /\ DOMAIN old.checkins \subseteq DOMAIN new.checkins
    /\ \A u \in DOMAIN old.banned_users :
           u \in DOMAIN new.banned_users \/ (ret'.op = "admin_unban" /\ ret'.user_id = u)

\* C23: durability: whenever a mutating store operation has returned success,
\* its effect is present in the backing file, and it is still present in the
\* backing file after any later successful store operations issued through any
\* entry point (no later write erases it).
C23_Durability ==
    [][ReturnedSuccess =>
          /\ file'.status = "written"
          /\ EffectIn(file'.doc)
          /\ (file.status = "written" => KeptIn(file.doc, file'.doc))]_vars

\* C24: when the file write fails during a mutating store operation, the
\* failure is surfaced to the caller as a storage error distinguishable from
\* the operation's normal false/already-in-state outcome, and the in-memory
\* mutation stays applied.
C24_StorageErrorSurfaced ==
    (ret.op = "record_checkin" /\ ret.write \in {"open_error", "write_error"}) =>
        /\ checkin_id(ret.user_id, ret.habit_id, today) \in DOMAIN data.checkins
        /\ ret.value # FALSE

\* the collections of dataset d are those of document doc
SameCollections(d, doc) ==
    /\ d.users = doc.users
    /\ d.habits = doc.habits
    /\ d.checkins = doc.checkins
    /\ d.banned_users = doc.banned_users

\* C25: restart round trip: after the process restarts, the store state used
\* by every operation (users, habits, check-ins, bans) equals the document
\* last persisted before the restart; no entry point starts from an empty
\* dataset when a backing file exists.
C25_RestartRoundTrip ==
    [][(ret'.op = "restart" /\ Restart /\ file.status = "written") =>
          /\ SameCollections(data', file.doc)
          /\ SameCollections(admin_data', file.doc)]_vars

\* C26: there is one shared in-memory dataset: a mutation made through the
\* user command handlers is visible to every later query issued through the
\* admin handlers (statistics, broadcast list), and a ban issued through the
\* admin handlers is visible to every later isBanned query from any other
\* entry point.
C26_SharedDataset ==
    /\ get_bot_statistics(admin_data, now, today) = get_bot_statistics(data, now, today)
    /\ get_all_active_users(admin_data, now) = get_all_active_users(data, now)
    /\ \A u \in Users :
           /\ is_user_banned(data, u) = is_user_banned(admin_data, u)
           /\ is_user_banned(main_data, u) = is_user_banned(admin_data, u)

\* texts a and b are the same but for the case of their letters
SameButCase(a, b) ==
    /\ Len(a) = Len(b)
    /\ \A i \in DOMAIN a :
           \/ a[i] = b[i]
           \/ \E j \in DOMAIN UpperCase : {a[i], b[i]} = {UpperCase[j], LowerCase[j]}

\* the keys of the frequency lexicon the trimmed text matches
LexiconKeys(text) == {k \in DOMAIN frequency_map : SameButCase(strip(text), k)}

\* the trimmed length of the text is one a habit name may have
ValidName(text) ==
    Len(strip(text)) >= MIN_NAME_LENGTH /\ Len(strip(text)) <= MAX_NAME_LENGTH

\* C27: wizard happy path: from Idle, start moves the user to
\* AwaitingHabitName; a valid name moves to AwaitingFrequency with the name
\* stored; a frequency text matching the lexicon case-insensitively creates
\* exactly one habit owned by that user with the stored name and the mapped
\* enum value and returns the user to Idle.
C27_WizardHappyPath ==
    [][/\ (ret'.op = "cmd_add_habit" /\ fsm[ret'.user_id].state = "none") =>
              fsm'[ret'.user_id].state = "waiting_for_name"
       /\ (ret'.op = "process_habit_name" /\ ValidName(ret'.text)) =>
              /\ fsm'[ret'.user_id].state = "waiting_for_frequency"
              /\ "habit_name" \in DOMAIN fsm'[ret'.user_id].data
              /\ fsm'[ret'.user_id].data["habit_name"] = strip(ret'.text)
       /\ (ret'.op = "process_habit_frequency" /\ LexiconKeys(ret'.text) # {}) =>
              /\ Len(data'.habits) = Len(data.habits) + 1
              /\ SubSeq(data'.habits, 1, Len(data.habits)) = data.habits
              /\ LET habit == data'.habits[Len(data'.habits)]
                 IN  /\ habit.user_id = ret'.user_id
                     /\ habit.name = fsm[ret'.user_id].data["habit_name"]
                     /\ \A k \in LexiconKeys(ret'.text) :
                            habit.frequency = frequency_map[k]
                     /\ habit.id \notin HabitKeys(data)
              /\ fsm'[ret'.user_id].state = "none"
              /\ \A u \in Users \ {ret'.user_id} : fsm'[u] = fsm[u]]_vars

\* a habit was created from a frequency typed in Russian with a capital
C27_Witness ==
    /\ ret.op = "process_habit_frequency"
    /\ ret.text = TextDailyRussian
    /\ ret.value = "habit_created_success"
    /\ fsm[ret.user_id].state = "none"
    /\ \E i \in DOMAIN data.habits :
           /\ data.habits[i].user_id = ret.user_id
           /\ data.habits[i].frequency = "daily"
           /\ data.habits[i].name = <<"D", "a", "i", "l", "y">>

\* C28: wizard validation failures change nothing: submitName with a trimmed
\* length outside 2..50 leaves the user in AwaitingHabitName with the data
\* bag unchanged, and submitFrequency with text not in the lexicon leaves the
\* user in AwaitingFrequency with the stored name unchanged; in both cases no
\* habit is created.
C28_ValidationFailures ==
    [][/\ (ret'.op = "process_habit_name" /\ ~ValidName(ret'.text)) =>
              /\ fsm'[ret'.user_id].state = "waiting_for_name"
              /\ fsm'[ret'.user_id].data = fsm[ret'.user_id].data
              /\ data' = data /\ file' = file
       /\ (ret'.op = "process_habit_frequency" /\ LexiconKeys(ret'.text) = {}) =>
              /\ fsm'[ret'.user_id].state = "waiting_for_frequency"
              /\ fsm'[ret'.user_id].data = fsm[ret'.user_id].data
              /\ "habit_name" \in DOMAIN fsm'[ret'.user_id].data
              /\ data' = data /\ file' = file]_vars

\* a frequency that the lexicon does not hold was refused while a name was
\* stored
C28_Witness ==
    /\ ret.op = "process_habit_frequency"
    /\ ret.text = TextHourly
    /\ ret.value = "invalid_frequency_error"
    /\ fsm[ret.user_id] =
           [state |-> "waiting_for_frequency", data |-> Put(EmptyDict, "habit_name", <<"r", "u", "n">>)]

\* C29: start(u) from any wizard state puts u in AwaitingHabitName with an
\* empty transient data bag: no habit name entered in an earlier wizard run
\* is still stored after start.
C29_StartClearsData ==
    [][ret'.op = "cmd_add_habit" =>
          fsm'[ret'.user_id] = [state |-> "waiting_for_name", data |-> EmptyDict]]_vars

\* C30: cancel(u) puts u in Idle from every wizard state (AwaitingHabitName,
\* AwaitingFrequency, Idle) and creates no habit; after cancel, a following
\* text message is not interpreted as a habit name or frequency.
C30_CancelReturnsToIdle ==
    [][/\ ret'.op = "handle_cancel_button" =>
              (fsm'[ret'.user_id].state = "none" /\ data' = data)
       /\ (ret.op = "handle_cancel_button" /\ ret'.op # "none"
              /\ ret'.user_id = ret.user_id) =>
              ret'.op \notin {"process_habit_name", "process_habit_frequency"}]_vars

\* tasks j and k are two process_habit_frequency handlers of one user that
\* are both under way and have each created a habit
BothCreated(j, k) ==
    /\ j # k
    /\ tasks[j].at = "answer" /\ tasks[k].at = "answer"
    /\ tasks[j].user_id = tasks[k].user_id
    /\ tasks[j].habit_id # "none" /\ tasks[k].habit_id # "none"

\* C31: two frequency submissions from the same user that are processed
\* concurrently while the user is in AwaitingFrequency create exactly one
\* habit: the wizard leaves AwaitingFrequency before any point at which a
\* second handler for the same user can run.
C31_OneHabitPerSubmission ==
    /\ \A j, k \in TaskIds : ~BothCreated(j, k)
    /\ \A k \in TaskIds :
           (tasks[k].at = "answer" /\ tasks[k].habit_id # "none") =>
               fsm[tasks[k].user_id].state # "waiting_for_frequency"

\* C32: a start for a user supersedes any in-flight wizard step of that user:
\* if start is processed while an earlier frequency submission of the same
\* user is still completing, the user ends in AwaitingHabitName
\* (last-writer-wins) and is not reset to Idle by the earlier handler's
\* completion.
C32_StartSupersedes ==
    [][\A k \in TaskIds :
          (/\ tasks[k].at = "answer" /\ tasks'[k].at = "idle"
           /\ fsm[tasks[k].user_id].state = "waiting_for_name") =>
              fsm'[tasks[k].user_id].state = "waiting_for_name"]_vars

\* tasks j and k are two check-in handlers for one habit and one date that
\* are under way together
SameCheckin(j, k) ==
    /\ j # k
    /\ tasks[j].at = "answer" /\ tasks[k].at = "answer"
    /\ tasks[j].op = "process_habit_checkin" /\ tasks[k].op = "process_habit_checkin"
    /\ tasks[j].habit_id = tasks[k].habit_id
    /\ tasks[j].day = tasks[k].day

\* of the tasks j and k exactly one was told true by record_checkin, and one
\* record of their habit and date is in the store
OneTrueOneRecord(j, k) ==
    /\ Cardinality({t \in {j, k} : tasks[t].value = "checkin_success"}) = 1
    /\ Cardinality(CheckinsOf(data.checkins, tasks[j].habit_id, tasks[j].day)) = 1

\* a step that changes the dataset also makes the file write, and a write
\* that succeeds leaves the whole dataset in the file
MutationWithWrite ==
    /\ data' # data => \E w \in WriteOutcomes : file' = save_data(data', file, w)
    /\ (file' # file /\ file'.status = "written") => file'.doc = data'

C34_PacingAcrossKinds ==
    \A uid \in Users :
        (/\ uid \in DOMAIN accepted_at["message"]
         /\ uid \in DOMAIN accepted_at["callback_query"]) =>
            \/ accepted_at["message"][uid] - accepted_at["callback_query"][uid] >= rate_limit
            \/ accepted_at["callback_query"][uid] - accepted_at["message"][uid] >= rate_limit

\* C35: for every user u and habit h, recordCheckIn(u, h, today) returns
\* false exactly when hasCheckedInToday(u, h, today) is true, including when a
\* different user has already checked in h today.
C35_FalseIffCheckedToday ==
    ret.op = "record_checkin" => ((ret.value = FALSE) <=> ret.checked_before)

\* the habit of the store with the given id is owned by user u
OwnedBy(d, habit_id, u) ==
    \E i \in DOMAIN d.habits : d.habits[i].id = habit_id /\ d.habits[i].user_id = u

\* C36: referential integrity of check-ins: every check-in record names a
\* habit that exists in the store and whose owner equals the check-in's user
\* id; a check-in attempt by a non-owner or for an unknown habit id creates no
\* record and cannot prevent the owner from checking in that day.
C36_ReferentialIntegrity ==
    /\ \A id \in DOMAIN data.checkins :
           OwnedBy(data, data.checkins[id].habit_id, data.checkins[id].user_id)
    /\ (/\ ret.op = "process_habit_checkin"
        /\ OwnedBy(data, ret.habit_id, ret.user_id)
        /\ file.status = "written" /\ file.doc = data) => ret.value # "checkin_error"

\* C37: check-in records are never removed or modified by any operation;
\* hence for a fixed habit and a fixed value of today, totalCheckIns and
\* currentStreak never decrease across any sequence of store operations
\* (including softDeleteHabit, ban and unban), and a successful recordCheckIn
\* for today makes currentStreak at least 1.
C37_CheckinsOnlyGrow ==
    [][/\ \A id \in DOMAIN data.checkins :
             id \in DOMAIN data'.checkins /\ data'.checkins[id] = data.checkins[id]
       /\ (today' = today /\ data'.checkins # data.checkins) =>
             \A u \in Users, h \in HabitIds :
                 /\ get_total_checkins(data', u, h) >= get_total_checkins(data, u, h)
                 /\ get_current_streak(data', u, h, today)
                        >= get_current_streak(data, u, h, today)
       /\ (ret'.op = "process_habit_checkin" /\ ret'.value = "checkin_success"
              /\ data'.checkins # data.checkins) =>
             get_current_streak(data', ret'.user_id, ret'.habit_id, today') >= 1]_vars

\* a habit with two check-ins on consecutive days was deleted, and its
\* owner's streak and total are as before
C37_Witness ==
    /\ ret.op = "delete_habit"
    /\ ret.value = TRUE
    /\ today = 1
    /\ get_total_checkins(data, 1, ret.habit_id) = 2
    /\ get_current_streak(data, 1, ret.habit_id, today) = 2
    /\ 2 \in DOMAIN data.banned_users

\* the habit record h is one the creation dialogue may have made
WellFormedHabit(h) ==
    /\ ValidName(h.name)
    /\ h.frequency \in {"daily", "weekly", "3_times_week"}
    /\ h.user_id \in Users

\* C38: after any sequence of wizard interactions, every habit in the store
\* has a name whose trimmed length is between 2 and 50 and a frequency that is
\* one of the three enum values, and belongs to exactly one user that never
\* changes; a habit is created only by a frequency submission made in
\* AwaitingFrequency with a stored name.
C38_WizardMadeHabits ==
    [][/\ \A i \in DOMAIN data'.habits : WellFormedHabit(data'.habits[i])
       /\ \A i \in DOMAIN data'.habits, j \in DOMAIN data'.habits :
             data'.habits[i].id = data'.habits[j].id => i = j
       /\ \A i \in DOMAIN data.habits :
             /\ i \in DOMAIN data'.habits
             /\ data'.habits[i].id = data.habits[i].id
             /\ data'.habits[i].user_id = data.habits[i].user_id
       /\ data'.habits # data.habits =>
             /\ ret'.op = "process_habit_frequency"
             /\ fsm[ret'.user_id].state = "waiting_for_frequency"
             /\ "habit_name" \in DOMAIN fsm[ret'.user_id].data
             /\ Len(data'.habits) = Len(data.habits) + 1
             /\ data'.habits[Len(data'.habits)].name = fsm[ret'.user_id].data["habit_name"]
             /\ data'.habits[Len(data'.habits)].user_id = ret'.user_id]_vars

\* each of the two users has gone through the dialogue and owns a habit
C38_Witness ==
    /\ Len(data.habits) = 2
    /\ data.habits[1].user_id # data.habits[2].user_id
    /\ data.habits[1].frequency = "3_times_week"
    /\ data.habits[2].name = <<"r", "u", "n">>
    /\ \A u \in Users : fsm[u].state = "none"

\* C39: an action rejected because the user is serving a flood penalty
\* changes no flood-gate state: it is not appended to the sliding window and
\* does not alter or extend the penalty expiry; the penalty record is removed
\* only by the first action at or after its expiry.
C39_PenaltyFrame ==
    [][\A uid \in Users :
          FloodCall(uid) =>
              /\ decision'.serving =>
                    /\ ~decision'.handler
                    /\ decision'.penalty = 0
                    /\ user_message_count' = user_message_count
                    /\ penalties' = penalties
                    /\ uid \in DOMAIN penalties
                    /\ penalties[uid] = flood_hist[uid].until
              /\ \A u \in (DOMAIN penalties) \ (DOMAIN penalties') :
                    u = uid /\ now >= penalties[u]
              /\ \A u \in (DOMAIN penalties) \cap (DOMAIN penalties') :
                    penalties'[u] # penalties[u] =>
                        (u = uid /\ now >= penalties[u] /\ decision'.penalty > 0)]_vars

\* an action of a user who serves a penalty was rejected, with the user's
\* window and penalty in place
C39_Witness ==
    /\ decision.via = "antiflood"
    /\ decision.uid = 1
    /\ decision.serving
    /\ ~decision.handler
    /\ 1 \in DOMAIN penalties
    /\ now > 0
    /\ now < penalties[1]
    /\ Len(user_message_count[1]) > flood_threshold

\* the operations a user sets off themselves
OwnActions ==
    {"cmd_add_habit", "process_habit_name", "process_habit_frequency",
     "process_habit_checkin", "delete_habit", "set_user_language"}

\* C40: ban consistency: while a user is banned, none of that user's own
\* actions (wizard steps, check-ins, habit deletion, language change) changes
\* Habit Store state.
C40_BannedUserChangesNothing ==
    [][(ret'.op \in OwnActions /\ is_user_banned(data, ret'.user_id)) =>
          (data' = data /\ file' = file)]_vars

====
